---- MODULE Spec2Model ----
(***************************************************************************)
(* Verification model of the Braintrust OpenAI instrumentation layer:      *)
(*   - the call interceptors of py/src/braintrust/oai.py                   *)
(*     (ChatCompletionWrapper, ResponseWrapper, BaseWrapper),              *)
(*   - BraintrustStream of py/src/braintrust/functions/stream.py,          *)
(*   - the usage normaliser _parse_metrics_from_usage of oai.py.           *)
(*   - the accumulators _postprocess_streaming_results of oai.py.          *)
(* Five specifications share the module: Spec (one intercepted call),      *)
(* SpecStream (one BraintrustStream and its copies), SpecUsage (the usage  *)
(* normaliser applied to ordered usage records), SpecChat and SpecResponse *)
(* (the two accumulators applied to fragment and event lists).             *)
(***************************************************************************)
EXTENDS Integers, Sequences, FiniteSets, TLC

VARIABLES
    \* ---- one intercepted call (Spec) ----
    pc,           \* where the invocation is: idle, returned, raised, gen_created, suspended, done, closed
    call,         \* the invocation's inputs: wrapper class, method, kwargs and the provider's behaviour
    span,         \* the operations performed on the invocation's span, in order
    should_end,   \* the local should_end of create/acreate
    first,        \* the local first of gen()
    all_results,  \* the local all_results of gen()
    fetched,      \* how many elements gen() has pulled from the provider stream
    delivered,    \* the elements the caller has received from the returned generator
    result,       \* what create/acreate handed to its caller (value, generator or exception)
    genResult     \* how the generator finished for the caller: running, stop, exception, closed

ivars == <<pc, call, span, should_end, first, all_results, fetched, delivered, result, genResult>>

VARIABLES
    \* ---- one BraintrustStream and its copies (SpecStream) ----
    base,         \* what the first stream was constructed from: a list of chunks, or a generator of them
    srcPos,       \* how far the single-pass iterator under the streams has advanced in base.chunks
    teeBuf,       \* the elements itertools.tee has pulled from its source, shared by the tee iterators
    streams,      \* per BraintrustStream object: self.stream (ref, idx) and self._memoized_final_value
    sess,         \* per stream: the iteration (generator of __iter__) a consumer has in progress
    seen,         \* per stream: the chunks its iterations yielded since the last copy() involving it
    forkS,        \* per stream: the chunks that remained when the last copy() involving it was made
    hist          \* per stream: observations of final_value() calls and of exhaustion

svars == <<base, srcPos, teeBuf, streams, sess, seen, forkS, hist>>

VARIABLES
    \* ---- _parse_metrics_from_usage applied to a usage record (SpecUsage) ----
    upc,          \* ready: the usage record is given; done: it has been normalised
    usage,        \* the usage argument: a dict (its items in iteration order) or another value
    usage2,       \* the same record with its fields listed in another order
    metrics,      \* _parse_metrics_from_usage(usage)
    metrics2,     \* _parse_metrics_from_usage(usage2)
    raised        \* the exception _parse_metrics_from_usage(usage) raised, or "none"

uvars == <<upc, usage, usage2, metrics, metrics2, raised>>

VARIABLES
    \* ---- ChatCompletionWrapper._postprocess_streaming_results (SpecChat) ----
    cpc,          \* loop: in "for result in all_results"; returned; raised
    chat_results, \* the elements of all_results the loop has taken, in order,
                  \* with the content they had when gen() yielded them
    chat_acc,     \* the locals role, content, tool_calls, finish_reason, metrics
    chat_out,     \* the returned dict
    items_form,   \* what the provider stream yields: dicts, or objects with dict()
    caller_items, \* the elements the caller received, with their present content
    function_owner \* the element whose "function" dict tool_calls[0] holds; 0: none

cvars == <<cpc, chat_results, chat_acc, chat_out, items_form, caller_items, function_owner>>

VARIABLES
    \* ---- ResponseWrapper._postprocess_streaming_results (SpecResponse) ----
    rpc,              \* loop: in "for result in all_results"; returned; raised
    response_results, \* the elements of all_results the loop has taken, in order
    response_acc,     \* the locals output and metrics
    response_out      \* the returned dict

rvars == <<rpc, response_results, response_acc, response_out>>

VARIABLES
    wrapped,          \* the wrapper class whose create and acreate are invoked;
    caller_kwargs,    \* the keyword arguments of the invocation;
    create_response,  \* what the provider call does for these arguments;
    create_outcome,   \* what create(**kwargs) did: arguments forwarded and
                      \* passed to start_span, span operations, result;
    acreate_outcome   \* the same for acreate(**kwargs).

nvars == <<wrapped, caller_kwargs, create_response, create_outcome, acreate_outcome>>

avars == <<cvars, rvars, nvars>>

vars == <<ivars, svars, uvars, avars>>

(***************************************************************************)
(* Bounds                                                                  *)
(***************************************************************************)
MaxFrags == 3

MaxChunks == 2

MaxStreams == 2

MaxFinalValueCalls == 2

MaxFields == 2

MaxEvents == 4

(***************************************************************************)
(* Small helpers                                                           *)
(***************************************************************************)
SeqsUpTo(S, n) == UNION {[1..k -> S] : k \in 0..n}

Count(s, P(_)) == Cardinality({i \in 1..Len(s) : P(s[i])})

IsPrefix(a, b) == Len(a) <= Len(b) /\ \A i \in 1..Len(a) : a[i] = b[i]

(***************************************************************************)
(* Values of the interceptor model                                         *)
(***************************************************************************)
\* oai.py:9-10
X_LEGACY_CACHED_HEADER == "x-cached"

X_CACHED_HEADER == "x-bt-cached"

\* Exceptions are opaque values; NoExc says that nothing is raised.
Exceptions == {"APIError", "Timeout"}

NoExc == "none"

\* A provider stream element: an object with a dict() method, or a plain dict.
Items == { [id |-> 1, form |-> "obj"], [id |-> 2, form |-> "dict"] }

\* A header value is a string (a sequence of characters) or absent (get -> None).
NoHeader == [present |-> FALSE, v |-> <<>>]

HeaderValues ==
    { NoHeader,
      [present |-> TRUE, v |-> <<>>],
      [present |-> TRUE, v |-> <<"T", "r", "u", "e">>],
      [present |-> TRUE, v |-> <<"H", "I", "T">>],
      [present |-> TRUE, v |-> <<"n", "o">>] }

HeaderMaps == [{X_CACHED_HEADER, X_LEGACY_CACHED_HEADER} -> HeaderValues]

NoHeaders == [h \in {X_CACHED_HEADER, X_LEGACY_CACHED_HEADER} |-> NoHeader]

\* What the provider does for one call: the call raises exc, or returns a
\* response (with a raw-response accessor "parse" and headers, or without);
\* a streamed response yields items and then stops or raises streamExc.
Provider(exc, hasParse, headers, items, streamExc) ==
    [exc |-> exc, hasParse |-> hasParse, headers |-> headers, items |-> items,
     streamExc |-> streamExc]

RaisingProviders == { Provider(e, FALSE, NoHeaders, <<>>, NoExc) : e \in Exceptions }

PlainProviders ==
    { Provider(NoExc, FALSE, NoHeaders, <<>>, NoExc) }
    \cup { Provider(NoExc, TRUE, h, <<>>, NoExc) : h \in HeaderMaps }

StreamProviders ==
    { Provider(NoExc, r.hasParse, r.headers, r.items, r.streamExc) :
        r \in { q \in [hasParse : BOOLEAN, headers : HeaderMaps,
                       items : SeqsUpTo(Items, MaxFrags),
                       streamExc : Exceptions \cup {NoExc}] :
                    ~q.hasParse => q.headers = NoHeaders } }

\* The provider behaviours possible for a call with the given stream argument.
ProviderBehaviours(stream) ==
    RaisingProviders \cup (IF stream THEN StreamProviders ELSE PlainProviders)

Kwargs == [stream : BOOLEAN]

StreamingWrappers == {"ChatCompletionWrapper", "ResponseWrapper"}

BaseWrappers == {"EmbeddingWrapper", "ModerationWrapper"}

\* Python truthiness of headers.get(...): None and "" are falsy.
Truthy(h) == h.present /\ h.v # <<>>

\* Python's "a or b".
PyOr(a, b) == IF Truthy(a) THEN a ELSE b

LowerChar(c) ==
    CASE c = "T" -> "t" [] c = "R" -> "r" [] c = "U" -> "u" [] c = "E" -> "e"
      [] c = "H" -> "h" [] c = "I" -> "i" [] c = "N" -> "n" [] c = "O" -> "o"
      [] OTHER -> c

\* str.lower()
lower(str) == [i \in 1..Len(str) |-> LowerChar(str[i])]

\* Span operations, recorded in call order.
SpanStart(name) == [op |-> "start", what |-> name, val |-> <<>>]

SpanLog(what, val) == [op |-> "log", what |-> what, val |-> val]

SpanEnd == [op |-> "end", what |-> "end", val |-> <<>>]

\* Span.__exit__ of the "with start_span(...) as span" block: ends the span.
SpanExit(sp) == Append(sp, SpanEnd)

\* log_headers looking at the legacy header before the preferred one.
log_headers_LegacyFirst(response, sp) ==
    LET cached_value == PyOr(response.headers[X_LEGACY_CACHED_HEADER],
                             response.headers[X_CACHED_HEADER])
    IN  IF Truthy(cached_value)
        THEN Append(sp, SpanLog("cached",
                 IF lower(cached_value.v) \in { <<"t", "r", "u", "e">>, <<"h", "i", "t">> }
                 THEN 1 ELSE 0))
        ELSE sp

\* oai.py:21-29
log_headers(response, sp) ==
    LET cached_value == PyOr(response.headers[X_CACHED_HEADER],
                             response.headers[X_LEGACY_CACHED_HEADER])
    IN  IF Truthy(cached_value)
        THEN Append(sp, SpanLog("cached",
                 IF lower(cached_value.v) \in { <<"t", "r", "u", "e">>, <<"h", "i", "t">> }
                 THEN 1 ELSE 0))
        ELSE sp

\* item if isinstance(item, dict) else item.dict()
ToDict(item) == [item EXCEPT !.form = "dict"]

SpanName(w) ==
    CASE w = "ChatCompletionWrapper" -> "Chat Completion"
      [] w = "ResponseWrapper" -> "Response"
      [] w = "EmbeddingWrapper" -> "Embedding"
      [] w = "ModerationWrapper" -> "Moderation"

\* create_finally with the span.end() of the finally clause lost.
create_finally_NoEnd(sp, se) == sp

\* create_finally ending the span whatever should_end says.
create_finally_AlwaysEnds(sp, se) == Append(sp, SpanEnd)

\* The "finally: if should_end: span.end()" of create/acreate.
create_finally(sp, se) == IF se THEN Append(sp, SpanEnd) ELSE sp

\* gen_exhausted with span.end() issued before the final span.log.
gen_exhausted_EndFirst(sp, results) ==
    Append(Append(sp, SpanEnd), SpanLog("stream_result", results))

\* The end of gen(): the loop is over, the accumulated results are
\* post-processed and logged, and the finally clause ends the span.
gen_exhausted(sp, results) ==
    Append(Append(sp, SpanLog("stream_result", results)), SpanEnd)

\* gen_item yielding the recorded dict form instead of the provider's element.
gen_item_YieldsRecorded(w, sp, isFirst, results, item) ==
    [ span        |-> IF isFirst THEN Append(sp, SpanLog("time_to_first_token", <<>>)) ELSE sp,
      all_results |-> Append(results, ToDict(item)),
      yielded     |-> ToDict(item) ]

\* gen_item logging time_to_first_token for every element.
gen_item_LogsEveryItem(w, sp, isFirst, results, item) ==
    [ span        |-> Append(sp, SpanLog("time_to_first_token", <<>>)),
      all_results |-> Append(results, IF w = "ChatCompletionWrapper" THEN ToDict(item) ELSE item),
      yielded     |-> item ]

\* One turn of the loop of gen(): the first element logs time_to_first_token,
\* the element is recorded in all_results and yielded to the caller.
gen_item(w, sp, isFirst, results, item) ==
    [ span        |-> IF isFirst THEN Append(sp, SpanLog("time_to_first_token", <<>>)) ELSE sp,
      all_results |-> Append(results, IF w = "ChatCompletionWrapper" THEN ToDict(item) ELSE item),
      yielded     |-> item ]

NoResult == [t |-> "none", v |-> "none"]

(***************************************************************************)
(* create / acreate of ChatCompletionWrapper and ResponseWrapper           *)
(***************************************************************************)
StreamingCreate(w, m, kw, p) ==
    LET s0 == <<SpanStart(SpanName(w))>>
        s1 == IF p.hasParse THEN log_headers(p, s0) ELSE s0
    IN  /\ pc = "idle"
        /\ call' = [wrapper |-> w, method |-> m, kwargs |-> kw, provider |-> p]
        /\ UNCHANGED <<first, all_results, fetched, delivered, genResult>>
        /\ UNCHANGED <<svars, uvars, avars>>
        /\ IF p.exc # NoExc
           THEN \* create_fn raises inside the try: the finally clause runs
                /\ should_end' = TRUE
                /\ span' = create_finally(s0, TRUE)
                /\ result' = [t |-> "exception", v |-> p.exc]
                /\ pc' = "raised"
           ELSE IF kw.stream
           THEN \* should_end = False; return gen()
                /\ should_end' = FALSE
                /\ span' = create_finally(s1, FALSE)
                /\ result' = [t |-> "generator", v |-> "gen"]
                /\ pc' = "gen_created"
           ELSE \* span.log(metrics=..., output=...); return raw_response
                /\ should_end' = TRUE
                /\ span' = create_finally(Append(s1, SpanLog("result", <<>>)), TRUE)
                /\ result' = [t |-> "value", v |-> "raw_response"]
                /\ pc' = "returned"

ChatCompletionWrapper_create ==
    /\ pc = "idle"
    /\ \E kw \in Kwargs : \E p \in ProviderBehaviours(kw.stream) :
          StreamingCreate("ChatCompletionWrapper", "create", kw, p)

ChatCompletionWrapper_acreate ==
    /\ pc = "idle"
    /\ \E kw \in Kwargs : \E p \in ProviderBehaviours(kw.stream) :
          StreamingCreate("ChatCompletionWrapper", "acreate", kw, p)

ResponseWrapper_create ==
    /\ pc = "idle"
    /\ \E kw \in Kwargs : \E p \in ProviderBehaviours(kw.stream) :
          StreamingCreate("ResponseWrapper", "create", kw, p)

ResponseWrapper_acreate ==
    /\ pc = "idle"
    /\ \E kw \in Kwargs : \E p \in ProviderBehaviours(kw.stream) :
          StreamingCreate("ResponseWrapper", "acreate", kw, p)

(***************************************************************************)
(* create / acreate of BaseWrapper (EmbeddingWrapper, ModerationWrapper)   *)
(***************************************************************************)
BaseCreate(w, m, kw, p) ==
    LET s0 == <<SpanStart(SpanName(w))>>
        s1 == IF p.hasParse THEN log_headers(p, s0) ELSE s0
    IN  /\ pc = "idle"
        /\ call' = [wrapper |-> w, method |-> m, kwargs |-> kw, provider |-> p]
        /\ UNCHANGED <<should_end, first, all_results, fetched, delivered, genResult>>
        /\ UNCHANGED <<svars, uvars, avars>>
        /\ IF p.exc # NoExc
           THEN /\ span' = SpanExit(s0)
                /\ result' = [t |-> "exception", v |-> p.exc]
                /\ pc' = "raised"
           ELSE \* self.process_output(log_response, span); return raw_response
                /\ span' = SpanExit(Append(s1, SpanLog("result", <<>>)))
                /\ result' = [t |-> "value", v |-> "raw_response"]
                /\ pc' = "returned"

BaseWrapper_create ==
    /\ pc = "idle"
    /\ \E w \in BaseWrappers, kw \in Kwargs : \E p \in ProviderBehaviours(FALSE) :
          BaseCreate(w, "create", kw, p)

BaseWrapper_acreate ==
    /\ pc = "idle"
    /\ \E w \in BaseWrappers, kw \in Kwargs : \E p \in ProviderBehaviours(FALSE) :
          BaseCreate(w, "acreate", kw, p)

(***************************************************************************)
(* The generator gen() returned on the streaming path                      *)
(***************************************************************************)
\* The caller asks the generator for its next element (next / anext).
GenResume(w, m) ==
    /\ pc \in {"gen_created", "suspended"}
    /\ call.wrapper = w /\ call.method = m
    /\ UNCHANGED <<call, should_end, result>>
    /\ UNCHANGED <<svars, uvars, avars>>
    /\ IF fetched < Len(call.provider.items)
       THEN LET r == gen_item(w, span, first, all_results, call.provider.items[fetched + 1])
            IN  /\ span' = r.span
                /\ first' = FALSE
                /\ all_results' = r.all_results
                /\ delivered' = Append(delivered, r.yielded)
                /\ fetched' = fetched + 1
                /\ pc' = "suspended"
                /\ UNCHANGED genResult
       ELSE IF call.provider.streamExc # NoExc
       THEN \* the provider stream raises: the finally clause ends the span
            /\ span' = Append(span, SpanEnd)
            /\ genResult' = [t |-> "exception", v |-> call.provider.streamExc]
            /\ pc' = "done"
            /\ UNCHANGED <<first, all_results, fetched, delivered>>
       ELSE /\ span' = gen_exhausted(span, all_results)
            /\ genResult' = [t |-> "stop", v |-> "StopIteration"]
            /\ pc' = "done"
            /\ UNCHANGED <<first, all_results, fetched, delivered>>

\* The caller abandons the generator: close() / aclose(), or its collection.
\* A generator that was never started runs no code at all; one suspended at
\* the yield gets GeneratorExit there, which skips the rest of the try body
\* and runs the finally clause.
GenClose(w, m) ==
    /\ pc \in {"gen_created", "suspended"}
    /\ call.wrapper = w /\ call.method = m
    /\ span' = IF pc = "suspended" THEN Append(span, SpanEnd) ELSE span
    /\ genResult' = [t |-> "closed", v |-> "closed"]
    /\ pc' = "closed"
    /\ UNCHANGED <<call, should_end, first, all_results, fetched, delivered, result>>
    /\ UNCHANGED <<svars, uvars, avars>>

ChatCompletionWrapper_create_gen == GenResume("ChatCompletionWrapper", "create")

ChatCompletionWrapper_acreate_gen == GenResume("ChatCompletionWrapper", "acreate")

ResponseWrapper_create_gen == GenResume("ResponseWrapper", "create")

ResponseWrapper_acreate_gen == GenResume("ResponseWrapper", "acreate")

ChatCompletionWrapper_create_gen_close == GenClose("ChatCompletionWrapper", "create")

ChatCompletionWrapper_acreate_gen_close == GenClose("ChatCompletionWrapper", "acreate")

ResponseWrapper_create_gen_close == GenClose("ResponseWrapper", "create")

ResponseWrapper_acreate_gen_close == GenClose("ResponseWrapper", "acreate")

(***************************************************************************)
(* BraintrustStream (functions/stream.py)                                  *)
(***************************************************************************)
\* Strings are sequences of characters.
BraintrustTextChunk(data) == [type |-> "text_delta", data |-> data]

BraintrustJsonChunk(data) == [type |-> "json_delta", data |-> data]

Chunks ==
    { BraintrustTextChunk(<<"a">>), BraintrustTextChunk(<<"b">>),
      BraintrustJsonChunk(<<"1">>),
      BraintrustJsonChunk(<<"n", "u", "l", "l">>) }

\* Python values a final value can be, and the error json.loads raises.
PyNone == [t |-> "None", n |-> 0, s |-> <<>>]

PyStr(str) == [t |-> "str", n |-> 0, s |-> str]

PyInt(n) == [t |-> "int", n |-> n, s |-> <<>>]

JSONDecodeError == [t |-> "JSONDecodeError", n |-> 0, s |-> <<>>]

\* "".join(parts)
RECURSIVE Join(_)
Join(parts) == IF parts = <<>> THEN <<>> ELSE Head(parts) \o Join(Tail(parts))

DigitValue(c) ==
    CASE c = "0" -> 0 [] c = "1" -> 1 [] c = "2" -> 2 [] c = "3" -> 3 [] c = "4" -> 4
      [] c = "5" -> 5 [] c = "6" -> 6 [] c = "7" -> 7 [] c = "8" -> 8 [] c = "9" -> 9

RECURSIVE DecimalValue(_)
DecimalValue(str) ==
    IF str = <<>> THEN 0
    ELSE 10 * DecimalValue(SubSeq(str, 1, Len(str) - 1)) + DigitValue(str[Len(str)])

\* json.loads on the documents the chunks can spell: the literal null, a
\* number written with the digits 1-9; anything else is not a JSON document.
json_loads(str) ==
    IF str = <<"n", "u", "l", "l">> THEN PyNone
    ELSE IF str # <<>> /\ \A i \in 1..Len(str) :
                            str[i] \in {"1", "2", "3", "4", "5", "6", "7", "8", "9"}
    THEN PyInt(DecimalValue(str))
    ELSE JSONDecodeError

\* The loop of parse_stream: sorts the chunks into text_chunks and json_chunks.
RECURSIVE parse_loop(_, _, _)
parse_loop(chunks, text_chunks, json_chunks) ==
    IF chunks = <<>> THEN [text_chunks |-> text_chunks, json_chunks |-> json_chunks]
    ELSE LET chunk == Head(chunks)
         IN  IF chunk.type = "text_delta"
             THEN parse_loop(Tail(chunks), Append(text_chunks, chunk.data), json_chunks)
             ELSE IF chunk.type = "json_delta"
             THEN parse_loop(Tail(chunks), text_chunks, Append(json_chunks, chunk.data))
             ELSE parse_loop(Tail(chunks), text_chunks, json_chunks)

\* parse_result with the two branches in the wrong order: text wins over JSON.
parse_result_TextFirst(text_chunks, json_chunks) ==
    IF text_chunks # <<>> THEN PyStr(Join(text_chunks))
    ELSE IF json_chunks # <<>> THEN json_loads(Join(json_chunks))
    ELSE PyNone

\* The end of parse_stream: JSON chunks win over text chunks.
parse_result(text_chunks, json_chunks) ==
    IF json_chunks # <<>> THEN json_loads(Join(json_chunks))
    ELSE IF text_chunks # <<>> THEN PyStr(Join(text_chunks))
    ELSE PyNone

\* parse_stream applied to the chunks that iterating the stream yields.
parse_stream(chunks) ==
    LET acc == parse_loop(chunks, <<>>, <<>>)
    IN  parse_result(acc.text_chunks, acc.json_chunks)

StreamIds == 1..MaxStreams

NoStream == [exists |-> FALSE, ref |-> "none", idx |-> 0, memo |-> PyNone]

NoSession == [st |-> "none", bind |-> "none", lpos |-> 0]

NoHist ==
    [ returns   |-> <<>>,      \* what each final_value() call returned or raised
      parses    |-> 0,         \* how many times final_value() ran parse_stream
      exhausted |-> FALSE,     \* an iteration of the stream has run to exhaustion
      again     |-> FALSE ]    \* an iteration yielded a chunk after an earlier exhaustion

\* next() on a tee iterator with the buffering lost: both copies pull from
\* the one source.
tee_next_Unbuffered(chunks, pos, buf, idx) ==
    IF pos < Len(chunks)
    THEN [ok |-> TRUE, item |-> <<chunks[pos + 1]>>, pos |-> pos + 1, buf |-> buf, idx |-> idx]
    ELSE [ok |-> FALSE, item |-> <<>>, pos |-> pos, buf |-> buf, idx |-> idx]

\* next() on a tee iterator standing at idx in the shared buffer buf, whose
\* source stands at pos in chunks: a buffered element if there is one, else
\* the source's next element, which is buffered for the other iterators.
tee_next(chunks, pos, buf, idx) ==
    IF idx < Len(buf)
    THEN [ok |-> TRUE, item |-> <<buf[idx + 1]>>, pos |-> pos, buf |-> buf, idx |-> idx + 1]
    ELSE IF pos < Len(chunks)
    THEN [ok |-> TRUE, item |-> <<chunks[pos + 1]>>, pos |-> pos + 1,
          buf |-> Append(buf, chunks[pos + 1]), idx |-> idx + 1]
    ELSE [ok |-> FALSE, item |-> <<>>, pos |-> pos, buf |-> buf, idx |-> idx]

\* A tee iterator run to exhaustion; acc collects what it yields.
RECURSIVE tee_drain(_, _, _, _, _)
tee_drain(chunks, pos, buf, idx, acc) ==
    LET r == tee_next(chunks, pos, buf, idx)
    IN  IF r.ok THEN tee_drain(chunks, r.pos, r.buf, r.idx, acc \o r.item)
        ELSE [yielded |-> acc, pos |-> pos, buf |-> buf, idx |-> idx]

\* The chunks stream id would still yield: the whole list for a list, the
\* rest of the generator, or the rest of the buffer and then of the source.
Remaining(id) ==
    CASE streams[id].ref = "list" -> base.chunks
      [] streams[id].ref = "gen" -> SubSeq(base.chunks, srcPos + 1, Len(base.chunks))
      [] streams[id].ref = "tee" ->
            SubSeq(teeBuf, streams[id].idx + 1, Len(teeBuf))
            \o SubSeq(base.chunks, srcPos + 1, Len(base.chunks))

\* seen is kept for the streams that have been through copy().
Seen(id, items) == IF streams[id].ref = "tee" THEN seen[id] \o items ELSE seen[id]

\* History of stream id after one of its iterations yielded (or did not) and
\* reported (or not) exhaustion.
Observe(h, yieldedAny, exhaustedNow) ==
    [h EXCEPT !.again = h.again \/ (h.exhausted /\ yieldedAny),
              !.exhausted = h.exhausted \/ exhaustedNow]

\* __iter__: "yield from self.stream", one element at a time. A new iteration
\* binds to what self.stream is when it starts: iter(list) is a fresh list
\* iterator, a generator or a tee iterator is itself. An iteration over a tee
\* iterator holds no state of its own (its position is the tee iterator's,
\* and closing it closes nothing), so none is recorded for it.
BraintrustStream_iter(id) ==
    /\ streams[id].exists
    /\ UNCHANGED <<base, forkS, ivars, uvars, avars>>
    /\ LET cur  == IF sess[id].st = "open" THEN sess[id]
                   ELSE [st |-> "open", bind |-> streams[id].ref, lpos |-> 0]
       IN  CASE cur.bind = "list" ->
                  /\ UNCHANGED <<srcPos, teeBuf, streams>>
                  /\ IF cur.lpos < Len(base.chunks)
                     THEN /\ sess' = [sess EXCEPT ![id] = [cur EXCEPT !.lpos = cur.lpos + 1]]
                          /\ seen' = [seen EXCEPT ![id] = Seen(id, <<base.chunks[cur.lpos + 1]>>)]
                          /\ hist' = [hist EXCEPT ![id] = Observe(@, TRUE, FALSE)]
                     ELSE /\ sess' = [sess EXCEPT ![id] = NoSession]
                          /\ hist' = [hist EXCEPT ![id] = Observe(@, FALSE, TRUE)]
                          /\ UNCHANGED seen
             [] cur.bind = "gen" ->
                  /\ UNCHANGED <<teeBuf, streams>>
                  /\ IF srcPos < Len(base.chunks)
                     THEN /\ srcPos' = srcPos + 1
                          /\ sess' = [sess EXCEPT ![id] = cur]
                          /\ seen' = [seen EXCEPT ![id] = Seen(id, <<base.chunks[srcPos + 1]>>)]
                          /\ hist' = [hist EXCEPT ![id] = Observe(@, TRUE, FALSE)]
                     ELSE /\ sess' = [sess EXCEPT ![id] = NoSession]
                          /\ hist' = [hist EXCEPT ![id] = Observe(@, FALSE, TRUE)]
                          /\ UNCHANGED <<srcPos, seen>>
             [] cur.bind = "tee" ->
                  LET r == tee_next(base.chunks, srcPos, teeBuf, streams[id].idx)
                  IN  /\ srcPos' = r.pos
                      /\ teeBuf' = r.buf
                      /\ streams' = [streams EXCEPT ![id].idx = r.idx]
                      /\ seen' = [seen EXCEPT ![id] = Seen(id, r.item)]
                      /\ sess' = [sess EXCEPT ![id] = NoSession]
                      /\ hist' = [hist EXCEPT ![id] = Observe(@, r.ok, ~r.ok)]

\* The consumer abandons an iteration in progress (break): the generator of
\* __iter__ is closed, and "yield from" closes a generator it delegates to;
\* list and tee iterators have no close().
BraintrustStream_iter_close(id) ==
    /\ streams[id].exists
    /\ sess[id].st = "open"
    /\ sess' = [sess EXCEPT ![id] = NoSession]
    /\ srcPos' = IF sess[id].bind = "gen" THEN Len(base.chunks) ELSE srcPos
    /\ UNCHANGED <<base, teeBuf, streams, seen, forkS, hist, ivars, uvars, avars>>

\* copy(): self.stream, new_stream = tee(self.stream); the new stream wraps
\* new_stream. tee of a list iterates a fresh iter(list); tee of a tee
\* iterator copies it at its position. Called between iterations of the
\* stream, not during one.
BraintrustStream_copy(id, new) ==
    /\ streams[id].exists
    /\ ~streams[new].exists
    /\ \A k \in StreamIds : k < new => streams[k].exists
    /\ sess[id].st = "none"
    /\ LET S == Remaining(id)
           fresh == streams[id].ref # "tee"
           at == IF fresh THEN 0 ELSE streams[id].idx
       IN  /\ srcPos' = IF streams[id].ref = "list" THEN 0 ELSE srcPos
           /\ teeBuf' = IF fresh THEN <<>> ELSE teeBuf
           /\ streams' = [streams EXCEPT
                            ![id] = [@ EXCEPT !.ref = "tee", !.idx = at],
                            ![new] = [exists |-> TRUE, ref |-> "tee", idx |-> at,
                                      memo |-> PyNone]]
           /\ forkS' = [forkS EXCEPT ![id] = S, ![new] = S]
           /\ seen' = [seen EXCEPT ![id] = <<>>, ![new] = <<>>]
    /\ UNCHANGED <<base, sess, hist, ivars, uvars, avars>>

\* The number of final_value() calls made so far on the streams of ids.
RECURSIVE FinalValueCalls(_)
FinalValueCalls(ids) ==
    IF ids = {} THEN 0
    ELSE LET id == CHOOSE x \in ids : TRUE
         IN  Len(hist[id].returns) + FinalValueCalls(ids \ {id})

\* What "for chunk in stream" to exhaustion, as parse_stream runs it, yields
\* from stream id and the state it leaves behind.
Drain(id) ==
    CASE streams[id].ref = "list" ->
            [yielded |-> base.chunks, pos |-> srcPos, buf |-> teeBuf, idx |-> streams[id].idx]
      [] streams[id].ref = "gen" ->
            [yielded |-> SubSeq(base.chunks, srcPos + 1, Len(base.chunks)),
             pos |-> Len(base.chunks), buf |-> teeBuf, idx |-> streams[id].idx]
      [] streams[id].ref = "tee" ->
            tee_drain(base.chunks, srcPos, teeBuf, streams[id].idx, <<>>)

\* final_value(): parse_stream(self) runs while _memoized_final_value is
\* None, and its result is stored; json.loads raising leaves it None.
BraintrustStream_final_value(id) ==
    /\ streams[id].exists
    /\ FinalValueCalls(StreamIds) < MaxFinalValueCalls
    /\ UNCHANGED <<base, sess, forkS, ivars, uvars, avars>>
    /\ IF streams[id].memo = PyNone
       THEN LET d == Drain(id)
                v == parse_stream(d.yielded)
                h == Observe(hist[id], d.yielded # <<>>, TRUE)
            IN  /\ srcPos' = d.pos
                /\ teeBuf' = d.buf
                /\ streams' = [streams EXCEPT
                                 ![id] = [@ EXCEPT !.idx = d.idx,
                                                   !.memo = IF v = JSONDecodeError
                                                            THEN PyNone ELSE v]]
                /\ seen' = [seen EXCEPT ![id] = Seen(id, d.yielded)]
                /\ hist' = [hist EXCEPT
                                 ![id] = [h EXCEPT !.returns = Append(@, v),
                                                   !.parses = @ + 1]]
       ELSE /\ hist' = [hist EXCEPT ![id].returns = Append(@, streams[id].memo)]
            /\ UNCHANGED <<srcPos, teeBuf, streams, seen>>

\* The stream variables of a specification that has no stream.
StreamsUnused ==
    /\ base = [kind |-> "list", chunks |-> <<>>]
    /\ srcPos = 0
    /\ teeBuf = <<>>
    /\ streams = [id \in StreamIds |-> NoStream]
    /\ sess = [id \in StreamIds |-> NoSession]
    /\ seen = [id \in StreamIds |-> <<>>]
    /\ forkS = [id \in StreamIds |-> <<>>]
    /\ hist = [id \in StreamIds |-> NoHist]

\* __init__: BraintrustStream(base_stream) over a list of chunks, or over an
\* SSEClient, whose events _parse_sse_stream turns into a generator of chunks.
InitStream ==
    /\ base \in [kind : {"list", "gen"}, chunks : SeqsUpTo(Chunks, MaxChunks)]
    /\ srcPos = 0
    /\ teeBuf = <<>>
    /\ streams = [id \in StreamIds |->
                    IF id = 1 THEN [exists |-> TRUE, ref |-> base.kind, idx |-> 0,
                                    memo |-> PyNone]
                    ELSE NoStream]
    /\ sess = [id \in StreamIds |-> NoSession]
    /\ seen = [id \in StreamIds |-> <<>>]
    /\ forkS = [id \in StreamIds |-> <<>>]
    /\ hist = [id \in StreamIds |-> NoHist]

(***************************************************************************)
(* The usage normaliser _parse_metrics_from_usage (oai.py)                 *)
(***************************************************************************)
\* A field name is the sequence of the words that "_" separates in it:
\* input_tokens_details is <<"input", "tokens", "details">>.
\* A Python value is an int, a str, None, or a dict given by its items in
\* iteration order.
PyInteger(n) == [t |-> "int", n |-> n, d |-> <<>>]

PyString == [t |-> "str", n |-> 0, d |-> <<>>]

PyNoneValue == [t |-> "NoneType", n |-> 0, d |-> <<>>]

PyDict(items) == [t |-> "dict", n |-> 0, d |-> items]

Item(k, v) == [k |-> k, v |-> v]

\* Provider field names: the names of TOKEN_NAME_MAP, a name it does not
\* know (cost), detail groups of the prefixes of TOKEN_PREFIX_MAP and of a
\* prefix it does not know (audio).
UsageNames ==
    { <<"total", "tokens">>, <<"tokens">>, <<"input", "tokens">>, <<"prompt", "tokens">>,
      <<"output", "tokens">>, <<"cost">>,
      <<"input", "tokens", "details">>, <<"prompt", "tokens", "details">>,
      <<"output", "tokens", "details">>, <<"audio", "tokens", "details">> }

\* Field values: numbers, a non-numeric value, and detail dicts, one of them
\* with a non-numeric entry.
UsageValues ==
    { PyInteger(1), PyInteger(2), PyString,
      PyDict(<<Item(<<"cached", "tokens">>, PyInteger(1))>>),
      PyDict(<<Item(<<"cached", "tokens">>, PyInteger(2)), Item(<<"tier">>, PyString)>>) }

\* The usage dicts of at most MaxFields fields, in every order of their fields.
UsageDicts ==
    { PyDict(items) : items \in
        { f \in SeqsUpTo([k : UsageNames, v : UsageValues], MaxFields) :
            \A i, j \in 1..Len(f) : i # j => f[i].k # f[j].k } }

\* A table that renames nothing.
TOKEN_NAME_MAP_Identity(name) == name

\* oai.py:698-707
TOKEN_NAME_MAP(name) ==
    CASE name = <<"total", "tokens">> -> <<"tokens">>
      [] name = <<"prompt", "tokens">> -> <<"prompt", "tokens">>
      [] name = <<"completion", "tokens">> -> <<"completion", "tokens">>
      [] name = <<"tokens">> -> <<"tokens">>
      [] name = <<"input", "tokens">> -> <<"prompt", "tokens">>
      [] name = <<"output", "tokens">> -> <<"completion", "tokens">>
      [] OTHER -> name

\* oai.py:709-712
TOKEN_PREFIX_MAP(prefix) ==
    CASE prefix = <<"input">> -> <<"prompt">>
      [] prefix = <<"output">> -> <<"completion">>
      [] OTHER -> prefix

\* isinstance(v, (int, float, complex))
_is_numeric(v) == v.t \in {"int", "float", "complex", "bool"}

\* oai_name.endswith("_tokens_details")
EndsWithTokensDetails(name) ==
    /\ Len(name) >= 3
    /\ name[Len(name) - 1] = "tokens"
    /\ name[Len(name)] = "details"

\* metrics[name] = value on a dict held as a function from names to values.
SetItem(m, name, value) ==
    [x \in (DOMAIN m) \cup {name} |-> IF x = name THEN value ELSE m[x]]

\* for k, v in value.items(): if _is_numeric(v): metrics[f"{prefix}_{k}"] = v
RECURSIVE details_loop(_, _, _)
details_loop(items, prefix, m) ==
    IF items = <<>> THEN m
    ELSE LET k == Head(items).k
             v == Head(items).v
         IN  details_loop(Tail(items), prefix,
                          IF _is_numeric(v) THEN SetItem(m, prefix \o k, v) ELSE m)

\* How a piece of code ends: it returns the metrics m, or raises exc.
Returned(m) == [exc |-> "none", m |-> m]

Raised(exc) == [exc |-> exc, m |-> <<>>]

\* isinstance(value, dict)
isinstance_dict(value) == value.t = "dict"

\* value.items() followed by the loop over it: only a dict has items().
details_items(value, prefix, m) ==
    IF value.t = "dict" THEN Returned(details_loop(value.d, prefix, m))
    ELSE Raised("AttributeError")

\* for oai_name, value in usage.items(): ...
RECURSIVE usage_loop(_, _)
usage_loop(items, m) ==
    IF items = <<>> THEN Returned(m)
    ELSE LET oai_name == Head(items).k
             value == Head(items).v
         IN  IF EndsWithTokensDetails(oai_name)
             THEN LET raw_prefix == SubSeq(oai_name, 1, Len(oai_name) - 2)
                      prefix == TOKEN_PREFIX_MAP(raw_prefix)
                  IN  IF ~isinstance_dict(value)
                      THEN usage_loop(Tail(items), m)
                      ELSE LET r == details_items(value, prefix, m)
                           IN  IF r.exc # "none" THEN r ELSE usage_loop(Tail(items), r.m)
             ELSE IF _is_numeric(value)
             THEN usage_loop(Tail(items), SetItem(m, TOKEN_NAME_MAP(oai_name), value))
             ELSE usage_loop(Tail(items), m)

\* not usage: None, 0, "" and {} are false.
usage_falsy(u) ==
    \/ u.t = "NoneType"
    \/ u.t = "int" /\ u.n = 0
    \/ u.t = "dict" /\ u.d = <<>>

\* usage.items() followed by the loop over it.
usage_items(u) ==
    IF u.t = "dict" THEN usage_loop(u.d, <<>>) ELSE Raised("AttributeError")

\* The normaliser without its guard: every usage value reaches usage.items().
_parse_metrics_from_usage_Unguarded(u) == usage_items(u)

\* oai.py:715-744
_parse_metrics_from_usage(u) ==
    IF usage_falsy(u) \/ ~isinstance_dict(u) THEN Returned(<<>>)
    ELSE usage_items(u)

FieldOrders(n) == { f \in [1..n -> 1..n] : \A i, j \in 1..n : i # j => f[i] # f[j] }

\* The usage record listed in the order f of its fields.
Reordered(u, f) == IF u.t = "dict" THEN PyDict([i \in 1..Len(u.d) |-> u.d[f[i]]]) ELSE u

\* The normaliser is applied to the record and to a reordering of it.
NormalizeUsage ==
    /\ upc = "ready"
    /\ \E f \in FieldOrders(Len(usage.d)) :
          /\ usage2' = Reordered(usage, f)
          /\ metrics2' = _parse_metrics_from_usage(Reordered(usage, f)).m
    /\ metrics' = _parse_metrics_from_usage(usage).m
    /\ raised' = _parse_metrics_from_usage(usage).exc
    /\ upc' = "done"
    /\ UNCHANGED <<usage, ivars, svars, avars>>

UsageUnused ==
    /\ upc = "unused"
    /\ usage = PyNoneValue
    /\ usage2 = PyNoneValue
    /\ metrics = <<>>
    /\ metrics2 = <<>>
    /\ raised = "none"

InitUsage ==
    /\ upc = "ready"
    /\ usage \in UsageDicts \cup {PyNoneValue, PyString, PyInteger(0), PyInteger(1)}
    /\ usage2 = PyNoneValue
    /\ metrics = <<>>
    /\ metrics2 = <<>>
    /\ raised = "none"

(***************************************************************************)
(* ChatCompletionWrapper._postprocess_streaming_results (oai.py:161-212)   *)
(***************************************************************************)
\* A key that a dict does not hold.
Missing == [t |-> "missing", n |-> 0, s |-> <<>>]

\* d.get(key) is not None
Carries(v) == v.t # "missing" /\ v.t # "None"

\* The value under "function" in a tool-call entry: absent, None, or a dict
\* with its "arguments".
Function(t, arguments) == [t |-> t, arguments |-> arguments]

NoFunction == Function("missing", Missing)

\* The value under "tool_calls": absent, None, or a list given by its length
\* and the id, type and function of its first entry.
ToolCalls(t, len, id, type, function) ==
    [t |-> t, len |-> len, id |-> id, type |-> type, function |-> function]

NoToolCalls(t) == ToolCalls(t, 0, Missing, Missing, NoFunction)

ToolCallEntry(id, type, function) == ToolCalls("list", 1, id, type, function)

\* The value under "delta" in a choice: absent, None, or a dict.
Delta(t, role, content, finish_reason, tool_calls) ==
    [t |-> t, role |-> role, content |-> content, finish_reason |-> finish_reason,
     tool_calls |-> tool_calls]

DeltaDict(role, content, finish_reason, tool_calls) ==
    Delta("dict", role, content, finish_reason, tool_calls)

EmptyDelta == DeltaDict(Missing, Missing, Missing, NoToolCalls("missing"))

NoDelta(t) == Delta(t, Missing, Missing, Missing, NoToolCalls("missing"))

\* "usage" when the fragment has no such key.
NoUsageKey == [t |-> "missing", n |-> 0, d |-> <<>>]

\* One element of all_results: its "usage", its "choices" (absent, None, an
\* empty list, or a list) and the "delta" of its first choice.
Fragment(u, choices, delta) == [usage |-> u, choices |-> choices, delta |-> delta]

DeltaFragment(delta) == Fragment(NoUsageKey, "list", delta)

ToolCallFragments ==
    { DeltaFragment(DeltaDict(Missing, Missing, Missing, tc)) : tc \in
        { ToolCallEntry(PyStr(<<"c", "1">>), PyStr(<<"f">>), Function("dict", PyStr(<<"x">>))),
          ToolCallEntry(PyStr(<<"c", "2">>), PyStr(<<"g">>), Function("dict", PyStr(<<"y">>))) } }

UsageFragments ==
    { Fragment(PyDict(<<Item(<<"total", "tokens">>, PyInteger(1))>>), "empty", NoDelta("missing")),
      Fragment(PyDict(<<Item(<<"prompt", "tokens">>, PyInteger(2))>>), "empty", NoDelta("missing")),
      Fragment(PyDict(<<Item(<<"total", "tokens">>, PyInteger(2))>>), "list",
               DeltaDict(Missing, PyStr(<<"a">>), Missing, NoToolCalls("missing"))),
      Fragment(PyNoneValue, "list",
               DeltaDict(Missing, Missing, PyStr(<<"s", "t", "o", "p">>), NoToolCalls("None"))) }

WellFormedFragments ==
    { DeltaFragment(DeltaDict(PyStr(<<"a", "s">>), Missing, Missing, NoToolCalls("missing"))),
      DeltaFragment(DeltaDict(PyStr(<<"u">>), PyStr(<<"b">>), Missing, NoToolCalls("missing"))),
      DeltaFragment(DeltaDict(PyNone, PyStr(<<"a">>), PyNone, NoToolCalls("None"))),
      DeltaFragment(DeltaDict(Missing, PyStr(<<"b">>), Missing, NoToolCalls("missing"))),
      DeltaFragment(DeltaDict(Missing, PyStr(<<>>), Missing, NoToolCalls("missing"))),
      DeltaFragment(DeltaDict(Missing, Missing, PyStr(<<"l", "e", "n">>), NoToolCalls("missing"))),
      DeltaFragment(EmptyDelta),
      DeltaFragment(NoDelta("None")),
      Fragment(NoUsageKey, "empty", NoDelta("missing")),
      Fragment(NoUsageKey, "None", NoDelta("missing")) }
    \cup ToolCallFragments \cup UsageFragments

\* Fragments with a missing or unexpected field.
MalformedFragments ==
    { Fragment(NoUsageKey, "missing", NoDelta("missing")),
      DeltaFragment(NoDelta("missing")),
      DeltaFragment(DeltaDict(Missing, Missing, Missing, NoToolCalls("list"))),
      DeltaFragment(DeltaDict(Missing, Missing, Missing,
          ToolCallEntry(Missing, PyStr(<<"f">>), Function("dict", PyStr(<<"x">>))))),
      DeltaFragment(DeltaDict(Missing, Missing, Missing,
          ToolCallEntry(PyStr(<<"c", "1">>), PyStr(<<"f">>), Function("dict", PyNone)))) }

ChatFragments == WellFormedFragments \cup MalformedFragments

\* The locals of the function: role, content, tool_calls, finish_reason and
\* metrics, and the exception that left the loop, if one did.
chat_locals ==
    [role |-> PyNone, content |-> PyNone, tool_calls |-> NoToolCalls("None"),
     finish_reason |-> PyNone, metrics |-> <<>>, exc |-> "none"]

\* A value computed, or an exception raised, by a step of the loop body.
Value(v) == [exc |-> "none", v |-> v]

Exception(exc) == [exc |-> exc, v |-> Missing]

\* Metrics that keep the entries the new usage does not name.
chat_metrics_Merges(m, res) ==
    IF res.usage.t # "missing" /\ res.usage.t # "NoneType"
    THEN LET new == _parse_metrics_from_usage(res.usage).m
         IN  Returned([k \in (DOMAIN m) \cup (DOMAIN new) |->
                          IF k \in DOMAIN new THEN new[k] ELSE m[k]])
    ELSE Returned(m)

\* oai.py:169-170
chat_metrics(m, res) ==
    IF res.usage.t # "missing" /\ res.usage.t # "NoneType"
    THEN _parse_metrics_from_usage(res.usage)
    ELSE Returned(m)

choices_falsy_Never(choices) == FALSE

\* not choices
choices_falsy(choices) == choices \in {"None", "empty"}

\* not delta: None and the empty dict are false.
delta_falsy(delta) ==
    \/ delta.t = "None"
    \/ /\ delta.t = "dict"
       /\ delta.role.t = "missing" /\ delta.content.t = "missing"
       /\ delta.finish_reason.t = "missing" /\ delta.tool_calls.t = "missing"

\* oai.py:178-179
role_update(role, delta) ==
    IF role = PyNone /\ Carries(delta.role) THEN delta.role ELSE role

finish_reason_update_FirstWins(finish_reason, delta) ==
    IF finish_reason = PyNone /\ Carries(delta.finish_reason) THEN delta.finish_reason
    ELSE finish_reason

\* oai.py:181-182
finish_reason_update(finish_reason, delta) ==
    IF Carries(delta.finish_reason) THEN delta.finish_reason ELSE finish_reason

content_update_Replaces(content, delta) ==
    IF Carries(delta.content) THEN delta.content ELSE content

\* oai.py:184-185: content = (content or "") + delta.get("content")
content_update(content, delta) ==
    IF Carries(delta.content)
    THEN PyStr((IF content.t = "str" THEN content.s ELSE <<>>) \o delta.content.s)
    ELSE content

arguments_iadd_Replaces(arguments, more) == more

\* oai.py:196: str += str
arguments_iadd(arguments, more) == PyStr(arguments.s \o more.s)

\* oai.py:186-196
tool_calls_update(tool_calls, delta) ==
    LET tc == delta.tool_calls
    IN  IF ~Carries(tc) THEN Value(tool_calls)
        ELSE IF tool_calls.t = "None"
        THEN IF tc.len = 0 THEN Exception("IndexError")
             ELSE IF tc.id.t = "missing" \/ tc.type.t = "missing" \/ tc.function.t = "missing"
             THEN Exception("KeyError")
             ELSE Value(ToolCallEntry(tc.id, tc.type, tc.function))
        ELSE IF tool_calls.function.t # "dict" THEN Exception("TypeError")
        ELSE IF tool_calls.function.arguments.t = "missing" THEN Exception("KeyError")
        ELSE IF tc.len = 0 THEN Exception("IndexError")
        ELSE IF tc.function.t = "missing" THEN Exception("KeyError")
        ELSE IF tc.function.t # "dict" THEN Exception("TypeError")
        ELSE IF tc.function.arguments.t = "missing" THEN Exception("KeyError")
        ELSE IF tool_calls.function.arguments.t # "str" \/ tc.function.arguments.t # "str"
        THEN Exception("TypeError")
        ELSE Value([tool_calls EXCEPT !.function.arguments =
                        arguments_iadd(tool_calls.function.arguments, tc.function.arguments)])

\* oai.py:168-196: the loop body on one element of all_results.
chat_loop_body(acc, res) ==
    LET m == chat_metrics(acc.metrics, res)
        withMetrics == [acc EXCEPT !.metrics = m.m]
    IN  IF m.exc # "none" THEN [acc EXCEPT !.exc = m.exc]
        ELSE IF res.choices = "missing" THEN [withMetrics EXCEPT !.exc = "KeyError"]
        ELSE IF choices_falsy(res.choices) THEN withMetrics
        ELSE IF res.choices = "None" THEN [withMetrics EXCEPT !.exc = "TypeError"]
        ELSE IF res.choices = "empty" THEN [withMetrics EXCEPT !.exc = "IndexError"]
        ELSE IF res.delta.t = "missing" THEN [withMetrics EXCEPT !.exc = "KeyError"]
        ELSE IF delta_falsy(res.delta) THEN withMetrics
        ELSE LET delta == res.delta
                 tc == tool_calls_update(acc.tool_calls, delta)
             IN  IF tc.exc # "none" THEN [withMetrics EXCEPT !.exc = tc.exc]
                 ELSE [role |-> role_update(acc.role, delta),
                       content |-> content_update(acc.content, delta),
                       tool_calls |-> tc.v,
                       finish_reason |-> finish_reason_update(acc.finish_reason, delta),
                       metrics |-> m.m,
                       exc |-> "none"]

\* oai.py:198-212
chat_return(acc) ==
    [metrics |-> acc.metrics,
     output |-> <<[index |-> 0,
                   message |-> [role |-> acc.role, content |-> acc.content,
                                tool_calls |-> acc.tool_calls],
                   logprobs |-> PyNone,
                   finish_reason |-> acc.finish_reason]>>]

NoOutput == [metrics |-> <<>>, output |-> <<>>]

\* oai.py:68: all_results holds the yielded element itself when it is a
\* dict, and a fresh item.dict() otherwise.
recorded_is_item(form) == form = "dict"

\* oai.py:188-194: the first tool-call element's "function" dict itself is put
\* into tool_calls[0]; owner is the place of that element in all_results.
function_owner_update(owner, before, after, place) ==
    IF owner = 0 /\ after.exc = "none" /\ before.tool_calls.t = "None"
       /\ after.tool_calls.t = "list"
    THEN place ELSE owner

\* oai.py:196: "+=" stores the longer string into that shared dict, so the
\* caller's element shows it when all_results holds the element itself.
shared_function(items, form, owner, acc) ==
    IF owner # 0 /\ recorded_is_item(form)
    THEN [items EXCEPT ![owner].delta.tool_calls.function = acc.tool_calls.function]
    ELSE items

\* One iteration of "for result in all_results" on the next element.
ChatCompletionWrapper_postprocess_streaming_results_loop ==
    /\ cpc = "loop"
    /\ Len(chat_results) < MaxFrags
    /\ \E res \in ChatFragments :
          LET after == chat_loop_body(chat_acc, res)
              owner == function_owner_update(function_owner, chat_acc, after,
                                             Len(chat_results) + 1)
          IN  /\ chat_results' = Append(chat_results, res)
              /\ chat_acc' = after
              /\ function_owner' = owner
              /\ caller_items' = shared_function(Append(caller_items, res), items_form,
                                                 owner, after)
              /\ cpc' = IF after.exc = "none" THEN "loop" ELSE "raised"
    /\ UNCHANGED <<chat_out, items_form, ivars, svars, uvars, rvars, nvars>>

\* all_results is exhausted: the function returns.
ChatCompletionWrapper_postprocess_streaming_results_return ==
    /\ cpc = "loop"
    /\ cpc' = "returned"
    /\ chat_out' = chat_return(chat_acc)
    /\ UNCHANGED <<chat_results, chat_acc, items_form, caller_items, function_owner>>
    /\ UNCHANGED <<ivars, svars, uvars, rvars, nvars>>

ChatUnused ==
    /\ cpc = "unused"
    /\ chat_results = <<>>
    /\ chat_acc = chat_locals
    /\ chat_out = NoOutput
    /\ items_form = "dict"
    /\ caller_items = <<>>
    /\ function_owner = 0

InitChat ==
    /\ cpc = "loop"
    /\ chat_results = <<>>
    /\ chat_acc = chat_locals
    /\ chat_out = NoOutput
    /\ items_form \in {"dict", "obj"}
    /\ caller_items = <<>>
    /\ function_owner = 0

(***************************************************************************)
(* ResponseWrapper._postprocess_streaming_results (oai.py:345-399)         *)
(***************************************************************************)
\* An attribute of an event that holds an index: hasattr(result, name) and
\* its value.
Attr(has, v) == [has |-> has, v |-> v]

NoAttr == Attr(FALSE, 0)

\* The usage attribute of an event, when the event has one.
Usage(has, total_tokens, input_tokens, output_tokens) ==
    [has |-> has, total_tokens |-> total_tokens, input_tokens |-> input_tokens,
     output_tokens |-> output_tokens]

NoUsage == Usage(FALSE, 0, 0, 0)

\* The item attribute of an event.
OutputItem(id, type, status) == [id |-> id, type |-> type, status |-> status]

NoItem == OutputItem(0, "none", "none")

\* One element of all_results: a typed event object and its attributes.
Event(type, u, item, output_index, content_index, delta, annotation_index, annotation) ==
    [type |-> type, usage |-> u, item |-> item, output_index |-> output_index,
     content_index |-> content_index, delta |-> delta,
     annotation_index |-> annotation_index, annotation |-> annotation]

OutputItemAdded(id) ==
    Event("response.output_item.added", NoUsage, OutputItem(id, "message", "in_progress"),
          Attr(TRUE, id - 1), NoAttr, Missing, NoAttr, 0)

OutputItemDone(output_index) ==
    Event("response.output_item.done", NoUsage,
          OutputItem(output_index + 1, "message", "completed"),
          Attr(TRUE, output_index), NoAttr, Missing, NoAttr, 0)

OutputItemDelta(output_index) ==
    Event("response.output_item.delta", NoUsage, NoItem,
          Attr(TRUE, output_index), NoAttr, PyStr(<<"d">>), NoAttr, 0)

OutputTextDelta(output_index, content_index, delta) ==
    Event("response.output_text.delta", NoUsage, NoItem,
          Attr(TRUE, output_index), Attr(TRUE, content_index), PyStr(delta), NoAttr, 0)

AnnotationAdded(output_index, content_index, annotation_index) ==
    Event("response.output_text.annotation.added", NoUsage, NoItem,
          Attr(TRUE, output_index), Attr(TRUE, content_index), Missing,
          Attr(TRUE, annotation_index), 1)

ResponseCompleted ==
    Event("response.completed", Usage(TRUE, 3, 1, 2), NoItem, NoAttr, NoAttr, Missing, NoAttr, 0)

ResponseEvents ==
    { OutputItemAdded(1), OutputItemAdded(2), OutputItemDone(0), OutputItemDone(1),
      OutputItemDelta(0), ResponseCompleted,
      OutputTextDelta(0, 0, <<>>), OutputTextDelta(0, 2, <<"x">>) }
    \cup { OutputTextDelta(o, c, d) : o \in {0, 1}, c \in {0, 1}, d \in {<<"x">>, <<"y">>} }
    \cup { AnnotationAdded(0, 0, a) : a \in {0, 1, 2} }

\* A key of a dict that holds a list: "key in d" and d[key].
ListKey(has, list) == [has |-> has, list |-> list]

\* An entry of a slot's "content": its "text" and "annotations" keys.
ContentEntry(text, annotations) == [text |-> text, annotations |-> annotations]

EmptyContentEntry == ContentEntry(Missing, ListKey(FALSE, <<>>))

\* {} appended to an annotation list before it is assigned.
EmptyAnnotation == 0

\* An element of output: {"id": ..., "type": ...} and the keys set later.
OutputSlot(id, type, status, delta, content) ==
    [id |-> id, type |-> type, status |-> status, delta |-> delta, content |-> content]

\* The locals output and metrics, and the exception that left the loop.
response_locals == [output |-> <<>>, metrics |-> <<>>, exc |-> "none"]

\* oai.py:354-359
response_metrics(m, res) ==
    IF res.usage.has
    THEN SetItem(SetItem(SetItem(<<>>,
            <<"tokens">>, PyInteger(res.usage.total_tokens)),
            <<"prompt", "tokens">>, PyInteger(res.usage.input_tokens)),
            <<"completion", "tokens">>, PyInteger(res.usage.output_tokens))
    ELSE m

\* list[index] exists, for an index that is not negative.
InRange(list, index) == index < Len(list)

\* list[index]: the position in the list, or IndexError.
list_index(list, index) ==
    IF InRange(list, index) THEN Value(index + 1) ELSE Exception("IndexError")

text_iadd_Replaces(text, delta) == delta

\* oai.py:386: (current_content.get("text") or "") + result.delta
text_iadd(text, delta) == PyStr((IF text.t = "str" THEN text.s ELSE <<>>) \o delta.s)

\* oai.py:388-394 on current_content.
annotation_added(current_content, res) ==
    LET index == res.annotation_index.v
        had == IF current_content.annotations.has THEN current_content.annotations.list
               ELSE <<>>
        annotations == IF index = Len(had) THEN Append(had, EmptyAnnotation) ELSE had
    IN  IF ~InRange(annotations, index) THEN Exception("IndexError")
        ELSE Value([current_content EXCEPT !.annotations =
                ListKey(TRUE, [annotations EXCEPT ![index + 1] = res.annotation])])

\* oai.py:378-394 on current_output.
content_event(current_output, res) ==
    LET content_index == res.content_index.v
        had == IF current_output.content.has THEN current_output.content.list ELSE <<>>
        content == IF content_index = Len(had) THEN Append(had, EmptyContentEntry) ELSE had
    IN  IF ~InRange(content, content_index) THEN Exception("IndexError")
        ELSE LET current_content == content[content_index + 1]
                 withText == IF res.delta.t = "str" /\ res.delta.s # <<>>
                             THEN [current_content EXCEPT
                                      !.text = text_iadd(current_content.text, res.delta)]
                             ELSE current_content
                 entry == IF res.type = "response.output_text.annotation.added"
                          THEN annotation_added(withText, res)
                          ELSE Value(withText)
             IN  IF entry.exc # "none" THEN entry
                 ELSE Value([current_output EXCEPT !.content =
                         ListKey(TRUE, [content EXCEPT ![content_index + 1] = entry.v])])

\* oai.py:353-394: the loop body on one element of all_results.
response_loop_body(acc, res) ==
    LET withMetrics == [acc EXCEPT !.metrics = response_metrics(acc.metrics, res)]
        output == acc.output
    IN  IF res.type = "response.output_item.added"
        THEN [withMetrics EXCEPT !.output =
                Append(output, OutputSlot(res.item.id, res.item.type, Missing, Missing,
                                          ListKey(FALSE, <<>>)))]
        ELSE IF ~res.output_index.has THEN withMetrics
        ELSE LET at == list_index(output, res.output_index.v)
             IN  IF at.exc # "none" THEN [withMetrics EXCEPT !.exc = at.exc]
                 ELSE IF res.type = "response.output_item.done"
                 THEN [withMetrics EXCEPT !.output[at.v].status = PyStr(<<res.item.status>>)]
                 ELSE IF res.type = "response.output_item.delta"
                 THEN [withMetrics EXCEPT !.output[at.v].delta = res.delta]
                 ELSE IF res.content_index.has
                 THEN LET slot == content_event(output[at.v], res)
                      IN  IF slot.exc # "none" THEN [withMetrics EXCEPT !.exc = slot.exc]
                          ELSE [withMetrics EXCEPT !.output[at.v] = slot.v]
                 ELSE withMetrics

\* oai.py:396-399
response_return(acc) == [metrics |-> acc.metrics, output |-> acc.output]

\* One iteration of "for result in all_results" on the next element.
ResponseWrapper_postprocess_streaming_results_loop ==
    /\ rpc = "loop"
    /\ Len(response_results) < MaxEvents
    /\ \E res \in ResponseEvents :
          /\ response_results' = Append(response_results, res)
          /\ response_acc' = response_loop_body(response_acc, res)
          /\ rpc' = IF response_loop_body(response_acc, res).exc = "none"
                    THEN "loop" ELSE "raised"
    /\ UNCHANGED <<response_out, ivars, svars, uvars, cvars, nvars>>

\* all_results is exhausted: the function returns.
ResponseWrapper_postprocess_streaming_results_return ==
    /\ rpc = "loop"
    /\ rpc' = "returned"
    /\ response_out' = response_return(response_acc)
    /\ UNCHANGED <<response_results, response_acc, ivars, svars, uvars, cvars, nvars>>

ResponseUnused ==
    /\ rpc = "unused"
    /\ response_results = <<>>
    /\ response_acc = response_locals
    /\ response_out = NoOutput

InitResponse ==
    /\ rpc = "loop"
    /\ response_results = <<>>
    /\ response_acc = response_locals
    /\ response_out = NoOutput

(***************************************************************************)
(* create / acreate with their arguments and the provider's payload        *)
(* (oai.py: _parse_params, the non-streaming branches, process_output)     *)
(***************************************************************************)
\* Python values of the arguments and of the response: opaque objects told
\* apart by an identity, booleans, the elapsed time, and dicts held as
\* functions from keys to values.
PyObject(id) == [t |-> "object", n |-> id, d |-> <<>>]

PyBool(b) == [t |-> "bool", n |-> IF b THEN 1 ELSE 0, d |-> <<>>]

PyFloat == [t |-> "float", n |-> 0, d |-> <<>>]

PyMap(f) == [t |-> "dict", n |-> 0, d |-> f]

\* A list whose first element holds an embedding of the given length.
EmbeddingData(len) == [t |-> "list", n |-> len, d |-> <<>>]

\* bool(v) for the values a stream argument takes.
PyTruthy(v) == ~(v.t = "NoneType" \/ (v.t \in {"bool", "int"} /\ v.n = 0))

\* d.get(key, default)
DictGet(dict, key, default) == IF key \in DOMAIN dict THEN dict[key] ELSE default

\* The dict without the key (after pop).
Without(dict, key) == [x \in (DOMAIN dict) \ {key} |-> dict[x]]

\* util.merge_dicts(merge_into, merge_from): merge_from is merged into
\* merge_into key by key, its values win, and two dict values are merged
\* recursively.
RECURSIVE merge_dicts(_, _)
merge_dicts(merge_into, merge_from) ==
    [k \in (DOMAIN merge_into) \cup (DOMAIN merge_from) |->
        IF k \notin DOMAIN merge_from THEN merge_into[k]
        ELSE IF k \in DOMAIN merge_into /\ merge_into[k].t = "dict" /\ merge_from[k].t = "dict"
        THEN PyMap(merge_dicts(merge_into[k].d, merge_from[k].d))
        ELSE merge_from[k]]

\* The three _parse_params: span_info is popped from the keyword arguments
\* themselves, the rest is copied, the input field is popped from the copy,
\* and input and metadata are merged into span_info.  kwargs is what the
\* caller's **kwargs holds afterwards, params what is returned.
_parse_params(params, input_key) ==
    LET ret == IF "span_info" \in DOMAIN params THEN params["span_info"].d ELSE <<>>
        copy == Without(params, "span_info")
    IN  [ kwargs |-> Without(params, "span_info"),
          params |-> merge_dicts(ret, ("input" :> DictGet(copy, input_key, PyNoneValue))
                                      @@ ("metadata" :> PyMap(Without(copy, input_key)))) ]

\* oai.py:145-159
ChatCompletionWrapper_parse_params(params) == _parse_params(params, "messages")

\* oai.py:329-343
ResponseWrapper_parse_params(params) == _parse_params(params, "input")

\* oai.py:447-461
BaseWrapper_parse_params(params) == _parse_params(params, "input")

\* SpanTypeAttribute.LLM
LLM == PyObject(5)

\* The span names "Chat Completion", "Response", "Embedding", "Moderation".
NameValue(name) ==
    PyObject(CASE name = "Chat Completion" -> 1 [] name = "Response" -> 2
               [] name = "Embedding" -> 3 [] name = "Moderation" -> 4)

\* dict(name=..., span_attributes={"type": SpanTypeAttribute.LLM})
DefaultSpanArgs(name) ==
    ("name" :> NameValue(name)) @@ ("span_attributes" :> PyMap("type" :> LLM))

\* How an invocation ends: it returns a value or a generator, or raises.
NoRaw == [form |-> "none", body |-> <<>>]

ReturnValue(raw) == [t |-> "value", exc |-> NoExc, v |-> raw]

ReturnGen == [t |-> "generator", exc |-> NoExc, v |-> NoRaw]

RaiseExc(exc) == [t |-> "exception", exc |-> exc, v |-> NoRaw]

NoReturn == [t |-> "none", exc |-> NoExc, v |-> NoRaw]

\* What one invocation did: the keyword arguments it forwarded, the arguments
\* it passed to start_span, its span operations in order, and how it ended.
Outcome(kw, start, ops, ret) ==
    [done |-> TRUE, kwargs |-> kw, start_span |-> start, span |-> ops, ret |-> ret]

NoOutcome ==
    [done |-> FALSE, kwargs |-> <<>>, start_span |-> <<>>, span |-> <<>>, ret |-> NoReturn]

\* raw_response: the provider's result, or what its parse() gives.
RawResponse(p) == [form |-> p.form, body |-> p.body]

ResultLog(m, output) == SpanLog("result", [metrics |-> m, output |-> output])

TimeToFirstToken == <<"time", "to", "first", "token">>

\* usage[name] on a usage value: None is not subscriptable, a dict may lack
\* the key.
usage_getitem(u, name) ==
    IF u.t # "dict" THEN Exception("TypeError")
    ELSE IF \E i \in 1..Len(u.d) : u.d[i].k = name
    THEN Value(u.d[CHOOSE i \in 1..Len(u.d) : u.d[i].k = name].v)
    ELSE Exception("KeyError")

\* log_response["usage"][name]
response_usage_getitem(log_response, name) ==
    IF "usage" \notin DOMAIN log_response THEN Exception("KeyError")
    ELSE usage_getitem(log_response["usage"], name)

\* The first exception of a sequence of evaluations, or "none".
RECURSIVE FirstExc(_)
FirstExc(evals) ==
    IF evals = <<>> THEN "none"
    ELSE IF Head(evals).exc # "none" THEN Head(evals).exc
    ELSE FirstExc(Tail(evals))

\* The non-streaming branch returning the dict form it logged from.
nonstream_return_LogResponse(raw_response, log_response) == log_response

\* "return raw_response" of the non-streaming branches.
nonstream_return(raw_response, log_response) == raw_response

\* oai.py:78-85 and 133-140: the non-streaming branch of
\* ChatCompletionWrapper.create (usage_default {}) and acreate (None).
ChatCompletionWrapper_immediate(p, sp, usage_default) ==
    LET raw_response == RawResponse(p)
        log_response == ToDict(raw_response).body
        parsed == _parse_metrics_from_usage(DictGet(log_response, "usage", usage_default))
    IN  IF parsed.exc # "none" THEN [span |-> sp, ret |-> RaiseExc(parsed.exc)]
        ELSE IF "choices" \notin DOMAIN log_response
        THEN [span |-> sp, ret |-> RaiseExc("KeyError")]
        ELSE [ span |-> Append(sp, ResultLog(SetItem(parsed.m, TimeToFirstToken, PyFloat),
                                             log_response["choices"])),
               ret  |-> ReturnValue(nonstream_return(raw_response, ToDict(raw_response))) ]

\* oai.py:261-268: the non-streaming branch of ResponseWrapper.create.
ResponseWrapper_create_immediate(p, sp) ==
    LET raw_response == RawResponse(p)
        log_response == ToDict(raw_response).body
        parsed == _parse_metrics_from_usage(DictGet(log_response, "usage", PyNoneValue))
    IN  IF parsed.exc # "none" THEN [span |-> sp, ret |-> RaiseExc(parsed.exc)]
        ELSE IF "output" \notin DOMAIN log_response
        THEN [span |-> sp, ret |-> RaiseExc("KeyError")]
        ELSE [ span |-> Append(sp, ResultLog(SetItem(parsed.m, TimeToFirstToken, PyFloat),
                                             log_response["output"])),
               ret  |-> ReturnValue(nonstream_return(raw_response, ToDict(raw_response))) ]

\* oai.py:314-324: the non-streaming branch of ResponseWrapper.acreate reads
\* the three usage fields by subscript.
ResponseWrapper_acreate_immediate(p, sp) ==
    LET raw_response == RawResponse(p)
        log_response == ToDict(raw_response).body
        total == response_usage_getitem(log_response, <<"total", "tokens">>)
        input == response_usage_getitem(log_response, <<"input", "tokens">>)
        output == response_usage_getitem(log_response, <<"output", "tokens">>)
        exc == FirstExc(<<total, input, output>>)
    IN  IF exc # "none" THEN [span |-> sp, ret |-> RaiseExc(exc)]
        ELSE IF "output" \notin DOMAIN log_response
        THEN [span |-> sp, ret |-> RaiseExc("KeyError")]
        ELSE [ span |-> Append(sp, ResultLog(
                            (TimeToFirstToken :> PyFloat)
                            @@ (<<"tokens">> :> total.v)
                            @@ (<<"prompt", "tokens">> :> input.v)
                            @@ (<<"completion", "tokens">> :> output.v),
                            log_response["output"])),
               ret  |-> ReturnValue(nonstream_return(raw_response, ToDict(raw_response))) ]

\* oai.py:49-53: the span operations after the provider call returned.
headers_logged(p) == IF p.hasParse THEN log_headers(p, <<>>) ELSE <<>>

\* The body shared by create and acreate of ChatCompletionWrapper and
\* ResponseWrapper: start_span, the provider call inside try, log_headers,
\* the streaming branch or the non-streaming one (immediate: what it does
\* after log_headers), and the finally clause.
StreamingWrapper_call(name, pp, p, immediate) ==
    LET stream == DictGet(pp.kwargs, "stream", PyBool(FALSE))
        start == merge_dicts(DefaultSpanArgs(name), pp.params)
        s1 == headers_logged(p)
    IN  IF p.exc # NoExc
        THEN Outcome(pp.kwargs, start, create_finally(<<>>, TRUE), RaiseExc(p.exc))
        ELSE IF PyTruthy(stream)
        THEN Outcome(pp.kwargs, start, create_finally(s1, FALSE), ReturnGen)
        ELSE Outcome(pp.kwargs, start, create_finally(immediate.span, TRUE), immediate.ret)

\* oai.py:37-88
ChatCompletionWrapper_create_call(kw, p) ==
    StreamingWrapper_call("Chat Completion", ChatCompletionWrapper_parse_params(kw), p,
        ChatCompletionWrapper_immediate(p, headers_logged(p), PyDict(<<>>)))

\* oai.py:90-143
ChatCompletionWrapper_acreate_call(kw, p) ==
    StreamingWrapper_call("Chat Completion", ChatCompletionWrapper_parse_params(kw), p,
        ChatCompletionWrapper_immediate(p, headers_logged(p), PyNoneValue))

\* oai.py:220-271
ResponseWrapper_create_call(kw, p) ==
    StreamingWrapper_call("Response", ResponseWrapper_parse_params(kw), p,
        ResponseWrapper_create_immediate(p, headers_logged(p)))

\* oai.py:273-327
ResponseWrapper_acreate_call(kw, p) ==
    StreamingWrapper_call("Response", ResponseWrapper_parse_params(kw), p,
        ResponseWrapper_acreate_immediate(p, headers_logged(p)))

\* oai.py:468-477
EmbeddingWrapper_process_output(log_response, sp) ==
    LET total == response_usage_getitem(log_response, <<"total", "tokens">>)
        prompt == response_usage_getitem(log_response, <<"prompt", "tokens">>)
        exc == FirstExc(<<total, prompt>>)
    IN  IF exc # "none" THEN [span |-> sp, exc |-> exc]
        ELSE IF "data" \notin DOMAIN log_response THEN [span |-> sp, exc |-> "KeyError"]
        ELSE [ span |-> Append(sp, ResultLog(
                            (<<"tokens">> :> total.v) @@ (<<"prompt", "tokens">> :> prompt.v),
                            PyMap("embedding_length" :> PyInteger(log_response["data"].n)))),
               exc  |-> "none" ]

\* oai.py:484-487
ModerationWrapper_process_output(log_response, sp) ==
    IF "results" \notin DOMAIN log_response THEN [span |-> sp, exc |-> "KeyError"]
    ELSE [span |-> Append(sp, ResultLog(<<>>, log_response["results"])), exc |-> "none"]

\* oai.py:413-429 and 431-445: create and acreate of BaseWrapper; out is
\* what process_output does on the dict form of the response.
BaseWrapper_call(name, kw, p, out) ==
    LET pp == BaseWrapper_parse_params(kw)
        start == merge_dicts(DefaultSpanArgs(name), pp.params)
        raw_response == RawResponse(p)
    IN  IF p.exc # NoExc
        THEN Outcome(pp.kwargs, start, SpanExit(<<>>), RaiseExc(p.exc))
        ELSE IF out.exc # "none"
        THEN Outcome(pp.kwargs, start, SpanExit(out.span), RaiseExc(out.exc))
        ELSE Outcome(pp.kwargs, start, SpanExit(out.span),
                     ReturnValue(nonstream_return(raw_response, ToDict(raw_response))))

EmbeddingWrapper_call(kw, p) ==
    BaseWrapper_call("Embedding", kw, p,
        EmbeddingWrapper_process_output(ToDict(RawResponse(p)).body, headers_logged(p)))

ModerationWrapper_call(kw, p) ==
    BaseWrapper_call("Moderation", kw, p,
        ModerationWrapper_process_output(ToDict(RawResponse(p)).body, headers_logged(p)))

\* oai.py:507-508
EmbeddingV0Wrapper_create_call(kw, p) == EmbeddingWrapper_call(kw, p)

\* oai.py:510-511: acreate goes to ChatCompletionWrapper.
EmbeddingV0Wrapper_acreate_call(kw, p) == ChatCompletionWrapper_acreate_call(kw, p)

\* The wrapper classes whose create / acreate pair is invoked.
InvokedWrappers ==
    {"ChatCompletionWrapper", "ResponseWrapper", "EmbeddingWrapper", "ModerationWrapper",
     "EmbeddingV0Wrapper"}

\* span_info dicts: empty, or one that supplies a name, an input, a metadata
\* entry (under a key of its own or under the name of an argument), or a
\* type attribute.
SpanInfos ==
    { <<>>,
      "name" :> PyObject(21),
      "input" :> PyObject(22),
      "metadata" :> PyMap("user" :> PyObject(23)),
      "metadata" :> PyMap("model" :> PyObject(24)),
      "span_attributes" :> PyMap("type" :> PyObject(25)) }

\* A keyword argument that is absent or has one of the values.
OptionalArg(key, values) == { <<>> } \cup { key :> v : v \in values }

\* The keyword arguments of a call: model, and optionally span_info, stream,
\* messages and input.
CallKwargs ==
    { a @@ b @@ c @@ e @@ ("model" :> PyObject(13)) :
        a \in OptionalArg("span_info", { PyMap(si) : si \in SpanInfos }),
        b \in OptionalArg("stream", { PyBool(TRUE), PyBool(FALSE) }),
        c \in OptionalArg("messages", { PyObject(11) }),
        e \in OptionalArg("input", { PyObject(12) }) }

\* usage values of a response: the chat, responses and embedding shapes, a
\* responses usage with a detail group, one with a null field, null.
ResponseUsages ==
    { PyDict(<<Item(<<"prompt", "tokens">>, PyInteger(3)),
               Item(<<"completion", "tokens">>, PyInteger(7)),
               Item(<<"total", "tokens">>, PyInteger(10))>>),
      PyDict(<<Item(<<"input", "tokens">>, PyInteger(3)),
               Item(<<"output", "tokens">>, PyInteger(7)),
               Item(<<"total", "tokens">>, PyInteger(10))>>),
      PyDict(<<Item(<<"input", "tokens">>, PyInteger(3)),
               Item(<<"input", "tokens", "details">>,
                    PyDict(<<Item(<<"cached", "tokens">>, PyInteger(1))>>)),
               Item(<<"output", "tokens">>, PyInteger(7)),
               Item(<<"total", "tokens">>, PyInteger(10))>>),
      PyDict(<<Item(<<"prompt", "tokens">>, PyInteger(3)),
               Item(<<"total", "tokens">>, PyInteger(3))>>),
      PyDict(<<Item(<<"input", "tokens">>, PyInteger(3)),
               Item(<<"output", "tokens">>, PyInteger(7)),
               Item(<<"total", "tokens">>, PyNoneValue)>>),
      PyNoneValue }

\* The key under which a response of the call kind carries its output.
OutputKey(w) ==
    CASE w = "ChatCompletionWrapper" -> "choices"
      [] w = "ResponseWrapper" -> "output"
      [] w \in {"EmbeddingWrapper", "EmbeddingV0Wrapper"} -> "data"
      [] w = "ModerationWrapper" -> "results"

OutputValue(w) ==
    CASE w = "ChatCompletionWrapper" -> PyObject(31)
      [] w = "ResponseWrapper" -> PyObject(32)
      [] w \in {"EmbeddingWrapper", "EmbeddingV0Wrapper"} -> EmbeddingData(2)
      [] w = "ModerationWrapper" -> PyObject(34)

\* Response bodies of the call kind: with or without usage, with or without
\* the output field.
ResponseBodies(w) ==
    { u @@ o : u \in OptionalArg("usage", ResponseUsages),
               o \in OptionalArg(OutputKey(w), { OutputValue(w) }) }

HitHeaders ==
    [h \in {X_CACHED_HEADER, X_LEGACY_CACHED_HEADER} |->
        IF h = X_CACHED_HEADER THEN [present |-> TRUE, v |-> <<"H", "I", "T">>] ELSE NoHeader]

\* What the provider call does: it raises, or returns a result (an object or
\* a dict, reached through a raw-response accessor with headers or not).
CallProvider(exc, hasParse, form, body) ==
    [exc |-> exc, hasParse |-> hasParse,
     headers |-> IF hasParse THEN HitHeaders ELSE NoHeaders, form |-> form, body |-> body]

\* The behaviours possible for the wrapper and the keyword arguments: a call
\* with a true stream argument to a streaming wrapper returns a stream.
CallProviders(w, kw) ==
    { CallProvider(e, FALSE, "obj", <<>>) : e \in Exceptions }
    \cup IF w \in StreamingWrappers /\ PyTruthy(DictGet(kw, "stream", PyBool(FALSE)))
         THEN { CallProvider(NoExc, hp, "stream", <<>>) : hp \in BOOLEAN }
         ELSE { CallProvider(NoExc, hp, form, body) :
                  hp \in BOOLEAN, form \in {"obj", "dict"}, body \in ResponseBodies(w) }

Invoke_create(w, outcome) ==
    /\ wrapped = w
    /\ ~create_outcome.done
    /\ create_outcome' = outcome
    /\ UNCHANGED <<wrapped, caller_kwargs, create_response, acreate_outcome>>
    /\ UNCHANGED <<ivars, svars, uvars, cvars, rvars>>

Invoke_acreate(w, outcome) ==
    /\ wrapped = w
    /\ ~acreate_outcome.done
    /\ acreate_outcome' = outcome
    /\ UNCHANGED <<wrapped, caller_kwargs, create_response, create_outcome>>
    /\ UNCHANGED <<ivars, svars, uvars, cvars, rvars>>

ChatCompletionWrapper_create_invoke ==
    Invoke_create("ChatCompletionWrapper",
                  ChatCompletionWrapper_create_call(caller_kwargs, create_response))

ChatCompletionWrapper_acreate_invoke ==
    Invoke_acreate("ChatCompletionWrapper",
                   ChatCompletionWrapper_acreate_call(caller_kwargs, create_response))

ResponseWrapper_create_invoke ==
    Invoke_create("ResponseWrapper",
                  ResponseWrapper_create_call(caller_kwargs, create_response))

ResponseWrapper_acreate_invoke ==
    Invoke_acreate("ResponseWrapper",
                   ResponseWrapper_acreate_call(caller_kwargs, create_response))

EmbeddingWrapper_create_invoke ==
    Invoke_create("EmbeddingWrapper", EmbeddingWrapper_call(caller_kwargs, create_response))

EmbeddingWrapper_acreate_invoke ==
    Invoke_acreate("EmbeddingWrapper", EmbeddingWrapper_call(caller_kwargs, create_response))

ModerationWrapper_create_invoke ==
    Invoke_create("ModerationWrapper", ModerationWrapper_call(caller_kwargs, create_response))

ModerationWrapper_acreate_invoke ==
    Invoke_acreate("ModerationWrapper", ModerationWrapper_call(caller_kwargs, create_response))

EmbeddingV0Wrapper_create_invoke ==
    Invoke_create("EmbeddingV0Wrapper",
                  EmbeddingV0Wrapper_create_call(caller_kwargs, create_response))

EmbeddingV0Wrapper_acreate_invoke ==
    Invoke_acreate("EmbeddingV0Wrapper",
                   EmbeddingV0Wrapper_acreate_call(caller_kwargs, create_response))

InvokeUnused ==
    /\ wrapped = "none"
    /\ caller_kwargs = <<>>
    /\ create_response = CallProvider(NoExc, FALSE, "none", <<>>)
    /\ create_outcome = NoOutcome
    /\ acreate_outcome = NoOutcome

InitInvoke ==
    /\ wrapped \in InvokedWrappers
    /\ caller_kwargs \in CallKwargs
    /\ create_response \in CallProviders(wrapped, caller_kwargs)
    /\ create_outcome = NoOutcome
    /\ acreate_outcome = NoOutcome

InitCall ==
    /\ pc = "idle"
    /\ call = [wrapper |-> "none", method |-> "none", kwargs |-> [stream |-> FALSE],
               provider |-> [exc |-> NoExc, hasParse |-> FALSE, headers |-> NoHeaders,
                             items |-> <<>>, streamExc |-> NoExc]]
    /\ span = <<>>
    /\ should_end = TRUE
    /\ first = TRUE
    /\ all_results = <<>>
    /\ fetched = 0
    /\ delivered = <<>>
    /\ result = NoResult
    /\ genResult = NoResult

Init == InitCall /\ StreamsUnused /\ UsageUnused /\ ChatUnused /\ ResponseUnused /\ InvokeUnused

Next ==
    \/ ChatCompletionWrapper_create
    \/ ChatCompletionWrapper_acreate
    \/ ResponseWrapper_create
    \/ ResponseWrapper_acreate
    \/ BaseWrapper_create
    \/ BaseWrapper_acreate
    \/ ChatCompletionWrapper_create_gen
    \/ ChatCompletionWrapper_acreate_gen
    \/ ResponseWrapper_create_gen
    \/ ResponseWrapper_acreate_gen
    \/ ChatCompletionWrapper_create_gen_close
    \/ ChatCompletionWrapper_acreate_gen_close
    \/ ResponseWrapper_create_gen_close
    \/ ResponseWrapper_acreate_gen_close

Spec == Init /\ [][Next]_vars

(***************************************************************************)
(* SpecStream: a BraintrustStream, its copies and their consumers          *)
(***************************************************************************)
IterateStream == \E id \in StreamIds : BraintrustStream_iter(id)

AbandonIteration == \E id \in StreamIds : BraintrustStream_iter_close(id)

CopyStream == \E id, new \in StreamIds : BraintrustStream_copy(id, new)

FinalValue == \E id \in StreamIds : BraintrustStream_final_value(id)

InitS == InitCall /\ InitStream /\ UsageUnused /\ ChatUnused /\ ResponseUnused /\ InvokeUnused

NextS ==
    \/ IterateStream
    \/ AbandonIteration
    \/ CopyStream
    \/ FinalValue

SpecStream == InitS /\ [][NextS]_vars

(***************************************************************************)
(* SpecUsage: the usage normaliser on ordered usage records                *)
(***************************************************************************)
InitU == InitCall /\ StreamsUnused /\ InitUsage /\ ChatUnused /\ ResponseUnused /\ InvokeUnused

NextU == NormalizeUsage

SpecUsage == InitU /\ [][NextU]_vars

(***************************************************************************)
(* SpecChat: the chat-completion accumulator over fragment lists           *)
(***************************************************************************)
InitC == InitCall /\ StreamsUnused /\ UsageUnused /\ InitChat /\ ResponseUnused /\ InvokeUnused

NextC ==
    \/ ChatCompletionWrapper_postprocess_streaming_results_loop
    \/ ChatCompletionWrapper_postprocess_streaming_results_return

SpecChat == InitC /\ [][NextC]_vars

(***************************************************************************)
(* SpecResponse: the structured-response accumulator over event lists      *)
(***************************************************************************)
InitR == InitCall /\ StreamsUnused /\ UsageUnused /\ ChatUnused /\ InitResponse /\ InvokeUnused

NextR ==
    \/ ResponseWrapper_postprocess_streaming_results_loop
    \/ ResponseWrapper_postprocess_streaming_results_return

SpecResponse == InitR /\ [][NextR]_vars

(***************************************************************************)
(* SpecInvoke: create and acreate on the same arguments and response       *)
(***************************************************************************)
InitI == InitCall /\ StreamsUnused /\ UsageUnused /\ ChatUnused /\ ResponseUnused /\ InitInvoke

NextI ==
    \/ ChatCompletionWrapper_create_invoke
    \/ ChatCompletionWrapper_acreate_invoke
    \/ ResponseWrapper_create_invoke
    \/ ResponseWrapper_acreate_invoke
    \/ EmbeddingWrapper_create_invoke
    \/ EmbeddingWrapper_acreate_invoke
    \/ ModerationWrapper_create_invoke
    \/ ModerationWrapper_acreate_invoke
    \/ EmbeddingV0Wrapper_create_invoke
    \/ EmbeddingV0Wrapper_acreate_invoke

SpecInvoke == InitI /\ [][NextI]_vars

(***************************************************************************)
(* Properties of the intercepted call                                      *)
(***************************************************************************)
EndCount == Count(span, LAMBDA e : e.op = "end")

InvocationOver == pc \in {"returned", "raised", "done", "closed"}

OnStreamingPath == pc \in {"gen_created", "suspended", "done", "closed"}

\* C1: span.end is called exactly once per invocation: never twice, and never
\* zero times once the invocation is over (normal return, provider call
\* raising, stream consumed, stream raising, stream abandoned after k >= 0
\* elements).
C1_EndExactlyOnce == EndCount <= 1 /\ (InvocationOver => EndCount = 1)

\* C2: every span.log of an invocation precedes its span.end: no log is
\* issued on a span that has already been ended.
C2_LogBeforeEnd ==
    \A i, j \in 1..Len(span) : (i < j /\ span[i].op = "end") => span[j].op # "log"

C2_Witness ==
    /\ pc = "done" /\ genResult.t = "stop"
    /\ Len(delivered) >= 2
    /\ \E i \in 1..Len(span) : span[i].op = "log" /\ span[i].what = "cached"
    /\ \E i \in 1..Len(span) : span[i].op = "log" /\ span[i].what = "time_to_first_token"
    /\ \E i \in 1..Len(span) : span[i].op = "log" /\ span[i].what = "stream_result"
    /\ span[Len(span)].op = "end"

\* C3: when the caller closes the returned sequence after consuming k of the n
\* provider fragments (0 < k < n), the span has received an output/metrics log
\* reflecting exactly the k fragments, the span is then ended, and no error
\* reaches the caller.
C3_PartialResultsLogged ==
    (pc = "closed" /\ 0 < Len(delivered) /\ Len(delivered) < Len(call.provider.items)) =>
        /\ \E i \in 1..Len(span) :
              /\ span[i].op = "log" /\ span[i].what = "stream_result"
              /\ Len(span[i].val) = Len(delivered)
        /\ span[Len(span)].op = "end"
        /\ genResult.t # "exception"

\* C4: if the provider call raises, the same exception reaches the caller,
\* the span has been ended by then, and no span.log carrying output or usage
\* metrics was made.
C4_ProviderCallRaises ==
    pc = "raised" =>
        /\ result = [t |-> "exception", v |-> call.provider.exc]
        /\ span[Len(span)].op = "end"
        /\ \A i \in 1..Len(span) :
              span[i].op = "log" => span[i].what \notin {"result", "stream_result"}

C4_Witness ==
    /\ pc = "raised" /\ call.provider.exc = "Timeout"
    /\ call.wrapper = "ChatCompletionWrapper"
    /\ result.t = "exception"

\* C5: on the streaming path the caller obtains exactly the provider stream's
\* elements, in order, none dropped, duplicated or replaced, for every prefix
\* it consumes.
C5_PassThrough ==
    OnStreamingPath =>
        /\ IsPrefix(delivered, call.provider.items)
        /\ Len(delivered) = fetched
        /\ (genResult.t = "stop" => delivered = call.provider.items)

C5_Witness ==
    /\ pc = "suspended"
    /\ Len(delivered) >= 2
    /\ delivered[1].form = "obj" /\ delivered[2].form = "dict"
    /\ Len(delivered) < Len(call.provider.items)

(***************************************************************************)
(* Properties of BraintrustStream                                          *)
(***************************************************************************)
\* A stream that has been through copy(): the copied stream or its copy.
Forked(id) == streams[id].exists /\ streams[id].ref = "tee"

\* next() on the fork would report exhaustion.
ForkExhausted(id) == ~tee_next(base.chunks, srcPos, teeBuf, streams[id].idx).ok

C7_FinalValueIdempotent ==
    \A id \in StreamIds :
        (Len(hist[id].returns) >= 2 /\ hist[id].returns[1] # JSONDecodeError) =>
            /\ \A k \in 2..Len(hist[id].returns) : hist[id].returns[k] = hist[id].returns[1]
            /\ hist[id].parses <= 1

\* The data of the chunks of C that have the given type, in order.
DataOf(C, type) ==
    LET sel == SelectSeq(C, LAMBDA c : c.type = type)
    IN  [i \in 1..Len(sel) |-> sel[i].data]

\* The final value the documentation gives a chunk sequence C.
FinalValueOf(C) ==
    IF \E i \in 1..Len(C) : C[i].type = "json_delta"
    THEN json_loads(Join(DataOf(C, "json_delta")))
    ELSE IF \E i \in 1..Len(C) : C[i].type = "text_delta"
    THEN PyStr(Join(DataOf(C, "text_delta")))
    ELSE PyNone

\* C8: final_value() of a stream with chunk sequence C is the JSON parse of
\* the concatenated JSON chunks if C has a JSON chunk, else the concatenation
\* of the text chunks if C has one, else null: every final_value() call that
\* parses the stream returns FinalValueOf of the chunks that remained.
C8_FinalValueOfChunks ==
    [][ \A id \in StreamIds :
           hist'[id].parses = hist[id].parses + 1 =>
               hist'[id].returns[Len(hist'[id].returns)] = FinalValueOf(Remaining(id)) ]_vars

C8_Witness ==
    /\ base = [kind |-> "list",
               chunks |-> <<BraintrustTextChunk(<<"a">>), BraintrustJsonChunk(<<"1">>)>>]
    /\ hist[1].parses = 1
    /\ hist[1].returns = <<PyInt(1)>>

\* C9: iterating a stream that has already been iterated to exhaustion
\* yields no elements (list-backed, generator-backed, or copied and drained).
C9_ExhaustedYieldsNothing == \A id \in StreamIds : ~hist[id].again

(***************************************************************************)
(* Properties of the usage normaliser                                      *)
(***************************************************************************)
\* C10: _parse_metrics_from_usage returns the same metrics for two usage
\* records holding the same fields and values in a different field order,
\* also when two fields map to the same canonical name.
C10_OrderIndependent == upc = "done" => metrics = metrics2

\* The canonical name of a top-level field: total_tokens -> tokens,
\* input_tokens -> prompt_tokens, output_tokens -> completion_tokens, every
\* other name (prompt_tokens and completion_tokens among them) unchanged.
CanonicalName(f) ==
    IF f = <<"total", "tokens">> THEN <<"tokens">>
    ELSE IF f = <<"input", "tokens">> THEN <<"prompt", "tokens">>
    ELSE IF f = <<"output", "tokens">> THEN <<"completion", "tokens">>
    ELSE f

\* The canonical prefix of a detail group: input -> prompt, output ->
\* completion, every other prefix unchanged.
CanonicalPrefix(P) ==
    IF P = <<"input">> THEN <<"prompt">>
    ELSE IF P = <<"output">> THEN <<"completion">>
    ELSE P

\* f is P_tokens_details for a non-empty P.
IsDetailGroup(f) == Len(f) >= 3 /\ SubSeq(f, Len(f) - 1, Len(f)) = <<"tokens", "details">>

IsNumber(v) == v.t \in {"int", "float", "complex", "bool"}

\* The entries to emit for the usage mapping u, each with the place (i, j) of
\* the field and of the detail entry it comes from.
Emissions(u) ==
    { [i |-> i, j |-> 0, k |-> CanonicalName(u.d[i].k), v |-> u.d[i].v] :
        i \in { x \in 1..Len(u.d) : ~IsDetailGroup(u.d[x].k) /\ IsNumber(u.d[x].v) } }
    \cup UNION {
        { [i |-> i, j |-> j,
           k |-> CanonicalPrefix(SubSeq(u.d[i].k, 1, Len(u.d[i].k) - 2)) \o u.d[i].v.d[j].k,
           v |-> u.d[i].v.d[j].v] :
            j \in { y \in 1..Len(u.d[i].v.d) : IsNumber(u.d[i].v.d[y].v) } } :
        i \in { x \in 1..Len(u.d) : IsDetailGroup(u.d[x].k) /\ u.d[x].v.t = "dict" } }

\* e is the last emission under its name.
LastUnderName(u, e) ==
    \A e2 \in Emissions(u) :
        e2.k = e.k => ~(e2.i > e.i \/ (e2.i = e.i /\ e2.j > e.j))

C12_NeverRaises ==
    upc = "done" =>
        /\ raised = "none"
        /\ (usage.t # "dict" \/ usage.d = <<>>) => metrics = <<>>
        /\ \A k \in DOMAIN metrics : IsNumber(metrics[k])
        /\ (usage.t = "dict" /\ \A i \in 1..Len(usage.d) :
               \/ (~IsDetailGroup(usage.d[i].k) /\ ~IsNumber(usage.d[i].v))
               \/ (IsDetailGroup(usage.d[i].k) /\ usage.d[i].v.t # "dict"))
           => metrics = <<>>

\* A mapping holding a non-numeric value and a detail group with a
\* non-numeric entry has been normalised, and only the number was kept.
C12_Witness ==
    /\ upc = "done"
    /\ usage.t = "dict"
    /\ Len(usage.d) = 2
    /\ usage.d[1].k = <<"cost">> /\ usage.d[1].v = PyString
    /\ usage.d[2].k = <<"input", "tokens", "details">>
    /\ usage.d[2].v.t = "dict" /\ Len(usage.d[2].v.d) = 2
    /\ DOMAIN metrics = {<<"prompt", "cached", "tokens">>}

(***************************************************************************)
(* Properties of the chat-completion accumulator                           *)
(***************************************************************************)
\* The strings of a list, concatenated in order.
RECURSIVE Concat(_)
Concat(strs) == IF strs = <<>> THEN <<>> ELSE Head(strs) \o Concat(Tail(strs))

\* The fragments whose delta carries a non-null role, content, finish reason
\* or tool-call delta, in arrival order.
RoleFragments == SelectSeq(chat_results, LAMBDA f : f.delta.role.t \notin {"missing", "None"})

ContentFragments ==
    SelectSeq(chat_results, LAMBDA f : f.delta.content.t \notin {"missing", "None"})

FinishFragments ==
    SelectSeq(chat_results, LAMBDA f : f.delta.finish_reason.t \notin {"missing", "None"})

ToolCallDeltas ==
    SelectSeq(chat_results, LAMBDA f : f.delta.tool_calls.t \notin {"missing", "None"})

\* The fragments that carry a non-null usage.
UsageBearing == SelectSeq(chat_results, LAMBDA f : f.usage.t \notin {"missing", "NoneType"})

FinalMessage == chat_out.output[1].message

\* C13: the finalized role is the role of the first fragment whose delta
\* carries a non-null role, and the finalized content is the concatenation,
\* in arrival order, of every fragment's non-null delta content (null when no
\* fragment carries one).
C13_RoleAndContent ==
    cpc = "returned" =>
        /\ FinalMessage.role =
              IF RoleFragments = <<>> THEN PyNone ELSE RoleFragments[1].delta.role
        /\ FinalMessage.content =
              IF ContentFragments = <<>> THEN PyNone
              ELSE PyStr(Concat([i \in 1..Len(ContentFragments) |->
                                    ContentFragments[i].delta.content.s]))

\* Two fragments carried different roles and two carried content.
C13_Witness ==
    /\ cpc = "returned"
    /\ Len(RoleFragments) = 2
    /\ RoleFragments[1].delta.role # RoleFragments[2].delta.role
    /\ FinalMessage.role = PyStr(<<"a", "s">>)
    /\ FinalMessage.content = PyStr(<<"b", "a">>)

\* C14: the finalized finish_reason is the last non-null finish reason a
\* fragment carried, and null only if none carried one.
C14_LastFinishReason ==
    cpc = "returned" =>
        chat_out.output[1].finish_reason =
            IF FinishFragments = <<>> THEN PyNone
            ELSE FinishFragments[Len(FinishFragments)].delta.finish_reason

\* Two fragments carried different finish reasons.
C14_Witness ==
    /\ cpc = "returned"
    /\ Len(FinishFragments) = 2
    /\ FinishFragments[1].delta.finish_reason = PyStr(<<"l", "e", "n">>)
    /\ chat_out.output[1].finish_reason = PyStr(<<"s", "t", "o", "p">>)

\* C15: the metrics are normalize(usage) of the last fragment that carries a
\* non-null usage, not merged with earlier metrics, and the empty mapping if
\* no fragment carries one; this holds after every fragment, so a fragment
\* without usage never changes them.
C15_MetricsOfLastUsage ==
    LET expected == IF UsageBearing = <<>> THEN <<>>
                    ELSE _parse_metrics_from_usage(UsageBearing[Len(UsageBearing)].usage).m
    IN  /\ (cpc \in {"loop", "returned"}) => chat_acc.metrics = expected
        /\ cpc = "returned" => chat_out.metrics = expected

\* Two fragments carried usages with different fields, and a fragment
\* without usage followed.
C15_Witness ==
    /\ cpc = "returned"
    /\ Len(chat_results) = 3
    /\ Len(UsageBearing) = 2
    /\ chat_results[3].usage.t = "missing"
    /\ DOMAIN _parse_metrics_from_usage(UsageBearing[1].usage).m = {<<"tokens">>}
    /\ DOMAIN chat_out.metrics = {<<"prompt", "tokens">>}

\* A fragment the loop skips: its choice list is empty, or its first choice's
\* delta is empty or null.
Skipped(f) ==
    \/ f.choices = "empty"
    \/ f.choices = "list" /\ (f.delta = EmptyDelta \/ f.delta.t = "None")

\* The loop has just folded a skipped fragment.
FoldsSkipped ==
    /\ cpc = "loop"
    /\ Len(chat_results') = Len(chat_results) + 1
    /\ Skipped(chat_results'[Len(chat_results')])

C17_ToolCallRecord ==
    (cpc = "returned" /\ \A i \in 1..Len(chat_results) : chat_results[i] \in WellFormedFragments) =>
        IF ToolCallDeltas = <<>> THEN FinalMessage.tool_calls.t = "None"
        ELSE /\ FinalMessage.tool_calls.t = "list"
             /\ FinalMessage.tool_calls.len = 1
             /\ FinalMessage.tool_calls.id = ToolCallDeltas[1].delta.tool_calls.id
             /\ FinalMessage.tool_calls.type = ToolCallDeltas[1].delta.tool_calls.type
             /\ FinalMessage.tool_calls.function.arguments =
                   PyStr(Concat([i \in 1..Len(ToolCallDeltas) |->
                                    ToolCallDeltas[i].delta.tool_calls.function.arguments.s]))

\* Three tool-call deltas with different ids were folded into one record.
C17_Witness ==
    /\ cpc = "returned"
    /\ Len(ToolCallDeltas) = 3
    /\ ToolCallDeltas[1].delta.tool_calls.id # ToolCallDeltas[2].delta.tool_calls.id
    /\ FinalMessage.tool_calls.id = PyStr(<<"c", "1">>)
    /\ FinalMessage.tool_calls.function.arguments = PyStr(<<"x", "y", "x">>)

\* C18: accumulation over any fragment list completes without raising: a
\* fragment with a missing or unexpected field is skipped and the fold
\* continues.
C18_NeverRaises == cpc # "raised"

(***************************************************************************)
(* Properties of the structured-response accumulator                       *)
(***************************************************************************)
\* C19: accumulation never raises on an out-of-range index: such an event is
\* a no-op and the fold continues with the next event.
C19_OutOfRangeIsNoOp == rpc # "raised"

\* The text deltas addressed to content index c of output slot o, in order.
TextDeltas(o, c) ==
    SelectSeq(response_results,
              LAMBDA e : /\ e.type = "response.output_text.delta"
                         /\ e.output_index = Attr(TRUE, o)
                         /\ e.content_index = Attr(TRUE, c))

TextOf(o, c) == Concat([i \in 1..Len(TextDeltas(o, c)) |-> TextDeltas(o, c)[i].delta.s])

\* C20: for every output slot and content index, the content entry's text is
\* the in-order concatenation of all text deltas addressed to it (no text key
\* while that concatenation is empty), and an index without entry has had no
\* text addressed to it.
C20_TextIsConcatenation ==
    rpc \in {"loop", "returned"} =>
        \A o \in 0..(MaxEvents - 1), c \in 0..(MaxEvents - 1) :
            IF /\ o < Len(response_acc.output)
               /\ response_acc.output[o + 1].content.has
               /\ c < Len(response_acc.output[o + 1].content.list)
            THEN response_acc.output[o + 1].content.list[c + 1].text =
                    IF TextOf(o, c) = <<>> THEN Missing ELSE PyStr(TextOf(o, c))
            ELSE TextOf(o, c) = <<>>

\* A second delta at content index 0 was appended to the first, and another
\* content entry of the slot holds its own text.
C20_Witness ==
    /\ rpc = "returned"
    /\ Len(response_acc.output) = 1
    /\ response_acc.output[1].content.has
    /\ Len(response_acc.output[1].content.list) = 2
    /\ response_acc.output[1].content.list[1].text = PyStr(<<"x", "y">>)
    /\ response_acc.output[1].content.list[2].text = PyStr(<<"y">>)

(***************************************************************************)
(* Properties of the cache header, the open span and the first element     *)
(***************************************************************************)
CachedLogs == SelectSeq(span, LAMBDA e : e.op = "log" /\ e.what = "cached")

ProviderReturned == pc # "idle" /\ call.provider.exc = NoExc

CachedMetricOf(v) ==
    IF lower(v) \in { <<"t", "r", "u", "e">>, <<"h", "i", "t">> } THEN 1 ELSE 0

\* The header the claim reads: x-bt-cached if present, otherwise x-cached.
PresentHeader(h) ==
    IF h[X_CACHED_HEADER].present THEN h[X_CACHED_HEADER] ELSE h[X_LEGACY_CACHED_HEADER]

\* The header the code reads: x-bt-cached if present and not empty, otherwise
\* x-cached.
NonEmptyHeader(h) ==
    IF h[X_CACHED_HEADER].present /\ h[X_CACHED_HEADER].v # <<>>
    THEN h[X_CACHED_HEADER] ELSE h[X_LEGACY_CACHED_HEADER]

\* C22 (as stated): with a raw-response accessor the cache value is header
\* x-bt-cached if present, otherwise x-cached; a value that is found gives
\* exactly one cached metric, 1 if it is "true" or "hit" in any letter case
\* and 0 otherwise; no header, or no accessor, gives no cached metric.
C22_CachedFromPresentHeader ==
    ProviderReturned =>
        LET p == call.provider
            h == PresentHeader(p.headers)
        IN  IF p.hasParse /\ h.present
            THEN CachedLogs = <<SpanLog("cached", CachedMetricOf(h.v))>>
            ELSE CachedLogs = <<>>

\* C22 (amended): the same with "present" read as "present with a non-empty
\* value": an empty x-bt-cached falls through to x-cached, and an empty value
\* that is found logs no cached metric.
C22_CachedFromNonEmptyHeader ==
    ProviderReturned =>
        LET p == call.provider
            h == NonEmptyHeader(p.headers)
        IN  IF p.hasParse /\ h.present /\ h.v # <<>>
            THEN CachedLogs = <<SpanLog("cached", CachedMetricOf(h.v))>>
            ELSE CachedLogs = <<>>

\* x-bt-cached says "no" and x-cached says "HIT": the preferred header wins.
C22_Witness ==
    /\ ProviderReturned
    /\ call.provider.hasParse
    /\ call.provider.headers[X_CACHED_HEADER].v = <<"n", "o">>
    /\ call.provider.headers[X_LEGACY_CACHED_HEADER].v = <<"H", "I", "T">>
    /\ CachedLogs = <<SpanLog("cached", 0)>>

\* C26: on the streaming path the span is open when create/acreate returns
\* and while the consumer can still receive elements: span.end is called only
\* once the stream is exhausted, has raised or was abandoned, and no element
\* is delivered after span.end.
C26_OpenWhileStreaming ==
    /\ [](pc \in {"gen_created", "suspended"} => EndCount = 0)
    /\ []((OnStreamingPath /\ EndCount >= 1) => pc \in {"done", "closed"})
    /\ [][EndCount >= 1 => delivered' = delivered]_vars

C26_Witness ==
    /\ pc = "suspended"
    /\ Len(delivered) = MaxFrags
    /\ EndCount = 0

FirstTokenLogs ==
    Count(span, LAMBDA e : e.op = "log" /\ e.what = "time_to_first_token")

\* C27: on the streaming path time_to_first_token is logged exactly once,
\* in the step that receives the first element from the provider and not
\* after that element was delivered; later elements do not log it again and
\* an empty provider stream never logs it.
C27_FirstTokenOnce ==
    /\ [](OnStreamingPath => FirstTokenLogs = (IF fetched >= 1 THEN 1 ELSE 0))
    /\ []((OnStreamingPath /\ Len(delivered) >= 1) => FirstTokenLogs = 1)
    /\ [][OnStreamingPath' /\ FirstTokenLogs' # FirstTokenLogs =>
            /\ fetched = 0 /\ fetched' = 1
            /\ delivered = <<>> /\ Len(delivered') = 1]_vars

C27_Witness ==
    /\ pc = "done"
    /\ Len(delivered) = MaxFrags
    /\ genResult.t = "stop"
    /\ FirstTokenLogs = 1

(***************************************************************************)
(* Properties of create / acreate on their arguments and payload           *)
(***************************************************************************)
ResultLogs(o) == SelectSeq(o.span, LAMBDA e : e.op = "log" /\ e.what = "result")

Outcomes == { o \in {create_outcome, acreate_outcome} : o.done }

StreamArgument == PyTruthy(DictGet(caller_kwargs, "stream", PyBool(FALSE)))

\* The provider returned a chat completion with a choices array to a call
\* that does not stream.
ChatImmediate ==
    /\ wrapped = "ChatCompletionWrapper"
    /\ create_response.exc = NoExc
    /\ ~StreamArgument
    /\ "choices" \in DOMAIN create_response.body

\* C21: on the non-streaming chat-completion path, create and acreate log
\* once metrics that hold every entry of the normalised response usage and
\* an output that is the response's choices, end the span right after that
\* log and nowhere else, and return the provider's result itself.
C21_ImmediateChatPath ==
    \A o \in Outcomes :
        ChatImmediate =>
            LET body == create_response.body
                normalized == _parse_metrics_from_usage(DictGet(body, "usage", PyNoneValue)).m
                logs == ResultLogs(o)
                n == Len(o.span)
            IN  /\ Len(logs) = 1
                /\ \A k \in DOMAIN normalized :
                      k \in DOMAIN logs[1].val.metrics /\ logs[1].val.metrics[k] = normalized[k]
                /\ logs[1].val.output = body["choices"]
                /\ n >= 2 /\ o.span[n] = SpanEnd /\ o.span[n - 1] = logs[1]
                /\ Count(o.span, LAMBDA e : e.op = "end") = 1
                /\ o.ret.t = "value"
                /\ o.ret.v = RawResponse(create_response)

\* The spec's scenario: usage {prompt_tokens: 3, completion_tokens: 7, ...}
\* on a result object reached through the raw-response accessor.
C21_Witness ==
    /\ ChatImmediate
    /\ create_outcome.done
    /\ create_response.hasParse
    /\ create_response.form = "obj"
    /\ "usage" \in DOMAIN create_response.body
    /\ Len(ResultLogs(create_outcome)) = 1
    /\ LET m == ResultLogs(create_outcome)[1].val.metrics
       IN  /\ DOMAIN m = { <<"prompt", "tokens">>, <<"completion", "tokens">>, <<"tokens">>,
                           TimeToFirstToken }
           /\ m[<<"prompt", "tokens">>] = PyInteger(3)
           /\ m[<<"completion", "tokens">>] = PyInteger(7)
    /\ create_outcome.ret.v.form = "obj"

\* The argument a call kind logs as the span's input.
InputField(w) == IF w = "ChatCompletionWrapper" THEN "messages" ELSE "input"

\* C23: the keyword arguments forwarded to the provider are the caller's
\* without span_info and otherwise unchanged; the span's input is the
\* messages argument (chat) or the input argument (responses, embedding,
\* moderation); its metadata is the remaining arguments, without span_info
\* and without that input field.  (Where span_info supplies a metadata of its
\* own, C24 says which entries are used, and nothing is required here.)
C23_ForwardedAndLogged ==
    \A o \in Outcomes :
        LET forwarded == Without(caller_kwargs, "span_info")
            span_info == DictGet(caller_kwargs, "span_info", PyMap(<<>>)).d
        IN  /\ o.kwargs = forwarded
            /\ o.start_span["input"]
                 = DictGet(caller_kwargs, InputField(wrapped), PyNoneValue)
            /\ "metadata" \notin DOMAIN span_info =>
                  o.start_span["metadata"] = PyMap(Without(forwarded, InputField(wrapped)))

\* The span_info value v is the one used in u.
SpanInfoWins(v, u) ==
    IF v.t = "dict"
    THEN u.t = "dict" /\ \A j \in DOMAIN v.d : j \in DOMAIN u.d /\ u.d[j] = v.d[j]
    ELSE u = v

\* C24: every field that span_info supplies is, in the arguments passed to
\* start_span, the span_info value and not the value derived from the call
\* (default name and type attribute, extracted input, argument metadata).
C24_SpanInfoWins ==
    \A o \in Outcomes :
        "span_info" \in DOMAIN caller_kwargs =>
            \A k \in DOMAIN caller_kwargs["span_info"].d :
                /\ k \in DOMAIN o.start_span
                /\ SpanInfoWins(caller_kwargs["span_info"].d[k], o.start_span[k])

SameSpan(a, b) ==
    /\ Len(a) = Len(b)
    /\ \A i \in 1..Len(a) :
          /\ a[i].op = b[i].op
          /\ a[i].what = b[i].what
          /\ a[i].val = b[i].val

\* C25: on the same arguments and the same provider result, create and
\* acreate of a call kind start a span of the same name, perform the same
\* span operations with the same metrics and output, and return the same
\* value or raise alike.
C25_CreateMatchesAcreate ==
    (create_outcome.done /\ acreate_outcome.done) =>
        /\ create_outcome.start_span["name"] = acreate_outcome.start_span["name"]
        /\ SameSpan(create_outcome.span, acreate_outcome.span)
        /\ create_outcome.ret.t = acreate_outcome.ret.t
        /\ create_outcome.ret.v = acreate_outcome.ret.v

\* The provider returned a result that carries the output field of its kind.
OutputPresent ==
    /\ create_response.exc = NoExc
    /\ \/ wrapped \in StreamingWrappers /\ StreamArgument
       \/ OutputKey(wrapped) \in DOMAIN create_response.body

\* C28: every value of every metrics mapping logged to the span is a number,
\* and a null, missing or non-numeric usage field raises nothing.
C28_MetricsNumeric ==
    \A o \in Outcomes :
        wrapped # "EmbeddingV0Wrapper" =>
            /\ \A i \in 1..Len(o.span) :
                  (o.span[i].op = "log" /\ o.span[i].what = "result") =>
                      \A k \in DOMAIN o.span[i].val.metrics :
                          o.span[i].val.metrics[k].t \in {"int", "float"}
            /\ \A i \in 1..Len(o.span) :
                  (o.span[i].op = "log" /\ o.span[i].what = "cached") =>
                      o.span[i].val \in {0, 1}
            /\ OutputPresent => o.ret.t # "exception"

(***************************************************************************)
(* Properties of the elements the caller holds                             *)
(***************************************************************************)
\* C29: accumulating the fragments for logging modifies no fragment that was
\* delivered to the caller: once the accumulator has returned the finalized
\* output, every element the caller received (tool-call fragments given as
\* mappings included) has the content it had when it was yielded.
C29_FragmentsUntouched ==
    cpc = "returned" =>
        /\ Len(caller_items) = Len(chat_results)
        /\ \A i \in 1..Len(chat_results) : caller_items[i] = chat_results[i]

====
